---- MODULE Spec2Model ----
(***************************************************************************)
(* ks-dhcpmon: the request processor (web/state.rs), the hybrid detector   *)
(* (hybrid_detection.rs), the SMB prober (smb.rs) and the fingerprint      *)
(* lookup (fingerprint.rs) as one state machine.                           *)
(*                                                                         *)
(* Conventions: Option<T> is a sequence of length 0 (None) or 1 (Some);    *)
(* a String that the code searches is a sequence of one-character          *)
(* strings; f32 confidences are in hundredths (95 is 0.95).                *)
(***************************************************************************)
EXTENDS Integers, Sequences, FiniteSets, TLC

\* ------------------------------------------------------------------ bounds
\* processor tasks that run concurrently, one per datagram (main.rs:70)
MaxTasks == 2
\* datagrams received one after the other in SpecSerial
MaxDatagrams == 3
\* last value of the epoch-second clock
MaxTime == 2
\* received of HybridDetector::detect in SpecDetect
MaxCalls == 3
\* longest options area (after the cookie) enumerated byte by byte
MaxOptionBytes == 4

\* WebSocket connections
MaxSubscribers == 2

\* concurrent calls that take locks
MaxCallers == 3

\* ------------------------------------------------------- program constants
\* state.rs:12 has 1000; scaled so that the ring fills and evicts
HISTORY_BUFFER_SIZE == 2

\* BROADCAST_CHANNEL_SIZE is 100 in the source, scaled with the ring
BROADCAST_CHANNEL_SIZE == 2
\* the limit handle_websocket passes to get_history, 50 in the source
WS_INITIAL_HISTORY == 1

Tasks == 1..MaxTasks
Subscribers == 1..MaxSubscribers
Callers == 1..MaxCallers

None == <<>>
Some(x) == <<x>>
IsSome(o) == Len(o) = 1
Unwrap(o) == o[1]

Min(a, b) == IF a < b THEN a ELSE b

\* ------------------------------------------------------------------ inputs
Str_MSFT == <<"M", "S", "F", "T">>
Vendor_MSFT50 == <<"M", "S", "F", "T", " ", "5", ".", "0">>
Vendor_Android == <<"a", "n", "d", "r", "o", "i", "d">>
Vendor_XMSFT == <<"x", "M", "S", "F", "T">>
Vendor_msft == <<"m", "s", "f", "t">>
Vendor_MSF == <<"M", "S", "F">>
Vendor_MSxFT == <<"M", "S", "x", "F", "T", "M", "S", "F">>

IP_UNSPECIFIED == "0.0.0.0"
IP_A == "192.0.2.10"
IP_B == "192.0.2.11"

MAC_1 == "aa:bb:cc:dd:ee:01"
MAC_2 == "aa:bb:cc:dd:ee:02"

FP_WIN11 == "1,3,6,15,31,33,43,44,46,47,121,249,252,12"
FP_WIN10 == "1,3,6,15,31,33,43,44,46,47,121,249,252"
FP_UNKNOWN == "99,98,97"
\* a key with one code appended (the tests of fingerprint.rs, lines 261 and
\* 274), with its last code removed, with its last two codes swapped, and
\* with a space after each comma
FP_WIN11_APPENDED == "1,3,6,15,31,33,43,44,46,47,121,249,252,12,99"
FP_WIN10_APPENDED == "1,3,6,15,31,33,43,44,46,47,121,249,252,99"
FP_WIN10_SHORTENED == "1,3,6,15,31,33,43,44,46,47,121,249"
FP_WIN11_REORDERED == "1,3,6,15,31,33,43,44,46,47,121,249,12,252"
FP_XBOX_SPACED == "1, 3, 6, 15, 44, 46, 47, 12"

\* ------------------------------------------------------- pure: fingerprint
OsInfo(os, dc, v) == [os_name |-> os, device_class |-> dc, vendor |-> v]

\* the inserts of FINGERPRINT_DB in source order: <<key, descriptor>>
FINGERPRINT_DB ==
  << <<FP_WIN11, OsInfo("Windows 11", "Desktop/Laptop", "Microsoft")>>,
     <<FP_WIN10, OsInfo("Windows 10/8/8.1", "Desktop/Laptop", "Microsoft")>>,
     <<"1,15,3,6,44,46,47,31,33,121,249,43,252",
       OsInfo("Windows 7", "Desktop/Laptop", "Microsoft")>>,
     <<"1,3,6,15,119,252",
       OsInfo("macOS (Recent)", "Desktop/Laptop", "Apple")>>,
     <<"1,3,6,15,119,95,252,44,46",
       OsInfo("macOS (Older)", "Desktop/Laptop", "Apple")>>,
     <<"1,3,6,15,119,252,95,44,46",
       OsInfo("iOS/iPadOS", "Mobile", "Apple")>>,
     <<"1,121,3,6,15,119,252,95,44,46",
       OsInfo("iOS", "Mobile", "Apple")>>,
     <<"1,3,6,15,26,28,51,58,59",
       OsInfo("Android", "Mobile", "Google")>>,
     <<"1,3,6,12,15,26,28,51,58,59,43",
       OsInfo("Android", "Mobile", "Google")>>,
     <<"1,28,2,3,15,6,119,12,44,47,26,121,42",
       OsInfo("Linux (Ubuntu/Debian)", "Desktop/Server", "Linux")>>,
     <<"1,3,6,12,15,28,42,51,54,58,59",
       OsInfo("Linux", "Desktop/Server", "Linux")>>,
     <<"1,3,6,12,15,28,51,58,59,119",
       OsInfo("Chrome OS", "Chromebook", "Google")>>,
     <<"1,3,6,15,12,28",
       OsInfo("PlayStation", "Gaming Console", "Sony")>>,
     <<"1,3,6,15,44,46,47,12",
       OsInfo("Xbox", "Gaming Console", "Microsoft")>>,
     <<"1,3,6,15,28,51,58,59",
       OsInfo("Nintendo Switch", "Gaming Console", "Nintendo")>>,
     <<"1,3,6,12,15,28,42",
       OsInfo("Roku", "Streaming Device", "Roku")>>,
     <<"1,3,6,15,26,28,51,58,59,43,12",
       OsInfo("Fire TV", "Streaming Device", "Amazon")>> >>

\* a lookup that also accepts a key the fingerprint starts with
lookup_fingerprint_prefix(fingerprint) ==
  LET hits == {i \in 1..Len(FINGERPRINT_DB) :
                 LET key == FINGERPRINT_DB[i][1]
                 IN /\ Len(key) <= Len(fingerprint)
                    /\ SubSeq(fingerprint, 1, Len(key)) = key}
  IN IF hits = {} THEN None
     ELSE Some(FINGERPRINT_DB[CHOOSE i \in hits : \A j \in hits : j <= i][2])

\* HashMap::get on a map built by successive inserts: the last insert of a
\* key is the one stored
lookup_fingerprint(fingerprint) ==
  LET hits == {i \in 1..Len(FINGERPRINT_DB) : FINGERPRINT_DB[i][1] = fingerprint}
  IN IF hits = {} THEN None
     ELSE Some(FINGERPRINT_DB[CHOOSE i \in hits : \A j \in hits : j <= i][2])

\* the lookup with the fingerprint tried first and the MAC as fallback
lookup_os_fingerprintFirst(mappings, mac_address, fingerprint) ==
  IF IsSome(lookup_fingerprint(fingerprint))
    THEN lookup_fingerprint(fingerprint)
    ELSE IF mac_address \in DOMAIN mappings
           THEN Some(mappings[mac_address])
           ELSE None

\* mappings is the content of MAC_MAPPINGS, a function from MAC to OsInfo
lookup_os(mappings, mac_address, fingerprint) ==
  IF mac_address \in DOMAIN mappings
    THEN Some(mappings[mac_address])
    ELSE lookup_fingerprint(fingerprint)

\* ------------------------------------------------------------- pure: smb
SmbProbeResult(os, build, dialect, ok) ==
  [os_version |-> os, build_number |-> build, smb_dialect |-> dialect,
   success |-> ok]

\* a byte buffer is a sequence of 0..255; the byte at offset i is buf[i + 1]
\* u16::from_le_bytes read with the high byte first
u16_from_le_bytes_bigEndian(b0, b1) == 256 * b0 + b1

\* u16::from_le_bytes([b0, b1])
u16_from_le_bytes(b0, b1) == b0 + 256 * b1

\* the label of a DialectRevision (the match of parse_smb2_response)
DialectLabel(dialect_code) ==
  CASE dialect_code = 514 -> "SMB 2.0.2"
    [] dialect_code = 528 -> "SMB 2.1"
    [] dialect_code = 768 -> "SMB 3.0"
    [] dialect_code = 770 -> "SMB 3.0.2"
    [] dialect_code = 785 -> "SMB 3.1.1"
    [] OTHER -> "SMB (unknown)"

\* the result parse_smb2_response builds from the dialect label
NegotiatedResult(smb_dialect) ==
  CASE smb_dialect = "SMB 3.1.1" ->
         SmbProbeResult("Windows 10/11 (SMB 3.1.1)", Some(19041), smb_dialect, TRUE)
    [] smb_dialect \in {"SMB 3.0.2", "SMB 3.0"} ->
         SmbProbeResult("Windows 8.1/10 (SMB 3.0)", Some(9600), smb_dialect, TRUE)
    [] smb_dialect = "SMB 2.1" ->
         SmbProbeResult("Windows 7/Server 2008 R2", Some(7601), smb_dialect, TRUE)
    [] smb_dialect = "SMB 2.0.2" ->
         SmbProbeResult("Windows Vista/Server 2008", Some(6002), smb_dialect, TRUE)
    [] OTHER ->
         SmbProbeResult("Windows (unknown SMB)", None, smb_dialect, TRUE)

\* 0xFE 'S' 'M' 'B'
SMB2_SIGNATURE == <<254, 83, 77, 66>>

\* the parse without the check of the signature
parse_smb2_response_unsigned(buf) ==
  IF Len(buf) < 68
    THEN <<"Err">>
    ELSE <<"Ok", NegotiatedResult(
                   IF Len(buf) >= 70
                     THEN DialectLabel(u16_from_le_bytes(buf[69], buf[70]))
                     ELSE "SMB 2.x/3.x")>>

\* parse_smb2_response: Result<SmbProbeResult>; Ok is <<"Ok", result>>, Err
\* is <<"Err">>
parse_smb2_response(buf) ==
  IF Len(buf) < 68
    THEN <<"Err">>
    ELSE IF Len(buf) < 8 \/ SubSeq(buf, 5, 8) # SMB2_SIGNATURE
           THEN <<"Err">>
           ELSE <<"Ok", NegotiatedResult(
                          IF Len(buf) >= 70
                            THEN DialectLabel(u16_from_le_bytes(buf[69], buf[70]))
                            ELSE "SMB 2.x/3.x")>>

\* what the peer and the network do to one probe: the connect is refused or
\* times out, the exchange fails after the connect, or the read returns
\* bytes_read bytes (none when the peer closed)
ConnectFailures == {"refused", "timeout"}
TransportErrors == {"send_failed", "send_timeout", "read_failed",
                    "read_timeout"}

\* a response of n bytes: NetBIOS header, the signature at 4..8, the
\* DialectRevision at 68..70, zero elsewhere
ResponseBytes(n, signature, b68, b69) ==
  [i \in 1..n |-> CASE i \in 5..8 -> signature[i - 4]
                    [] i = 69 -> b68
                    [] i = 70 -> b69
                    [] OTHER -> 0]

ResponseLengths == {0, 1, 7, 8, 67, 68, 69, 70, 72}
ForeignSignatures == {<<255, 83, 77, 66>>, <<254, 83, 77, 67>>, <<0, 0, 0, 0>>}
DialectBytes == {<<2, 2>>, <<16, 2>>, <<0, 3>>, <<2, 3>>, <<17, 3>>,
                 <<3, 17>>, <<0, 0>>, <<255, 255>>}
SmbResponses ==
  {ResponseBytes(n, SMB2_SIGNATURE, 17, 3) : n \in ResponseLengths}
    \cup {ResponseBytes(70, sig, 17, 3) : sig \in ForeignSignatures}
    \cup {ResponseBytes(70, SMB2_SIGNATURE, d[1], d[2]) : d \in DialectBytes}

ProbeOutcomes ==
  [kind : ConnectFailures] \cup [kind : TransportErrors]
    \cup [kind : {"read"}, response : SmbResponses]

\* send_smb2_negotiate, after the connect
send_smb2_negotiate(outcome) ==
  CASE outcome.kind \in TransportErrors -> <<"Err">>
    [] outcome.kind = "read" ->
         IF Len(outcome.response) = 0
           THEN <<"Err">>
           ELSE parse_smb2_response(outcome.response)

\* probe_smb: Result<SmbProbeResult>
probe_smb(outcome) ==
  CASE outcome.kind = "refused" ->
         <<"Ok", SmbProbeResult("Unknown (SMB port closed)", None, "N/A", FALSE)>>
    [] outcome.kind = "timeout" ->
         <<"Ok", SmbProbeResult("Unknown (connection timeout)", None, "N/A", FALSE)>>
    [] OTHER -> send_smb2_negotiate(outcome)

\* the arms of the match in build_to_windows_version, in source order:
\* <<first build, last build, label>>
BUILD_ARMS ==
  << <<22000, 22999, "Windows 11 21H2">>,
     <<22621, 22630, "Windows 11 22H2">>,
     <<22631, 22999, "Windows 11 23H2">>,
     <<26000, 29999, "Windows 11 (Insider/Future)">>,
     <<19041, 19045, "Windows 10 2004/20H2/21H1">>,
     <<19042, 19042, "Windows 10 20H2">>,
     <<19043, 19043, "Windows 10 21H1">>,
     <<19044, 19044, "Windows 10 21H2">>,
     <<19045, 19045, "Windows 10 22H2">>,
     <<18362, 18363, "Windows 10 1903/1909">>,
     <<17763, 17763, "Windows 10 1809">>,
     <<17134, 17134, "Windows 10 1803">>,
     <<16299, 16299, "Windows 10 1709">>,
     <<15063, 15063, "Windows 10 1703">>,
     <<14393, 14393, "Windows 10 1607">>,
     <<10586, 10586, "Windows 10 1511">>,
     <<10240, 10240, "Windows 10 1507">>,
     <<9600, 9600, "Windows 8.1">>,
     <<9200, 9200, "Windows 8">>,
     <<7600, 7601, "Windows 7">> >>

\* a match takes the first arm whose pattern covers the value
RECURSIVE FirstArm(_, _)
FirstArm(arms, b) ==
  IF arms = <<>> THEN "Windows (unknown version)"
  ELSE IF arms[1][1] <= b /\ b <= arms[1][2] THEN arms[1][3]
  ELSE FirstArm(Tail(arms), b)

\* build_to_windows_version
build_to_windows_version(b) == FirstArm(BUILD_ARMS, b)

\* -------------------------------------------------------- pure: detector
DetectionResult(os, dc, v, conf, method, dialect, build) ==
  [os_name |-> os, device_class |-> dc, vendor |-> v, confidence |-> conf,
   detection_method |-> method, smb_dialect |-> dialect, smb_build |-> build]

detect_via_dhcp(mappings, mac_address, fingerprint) ==
  LET info == lookup_os(mappings, mac_address, fingerprint)
  IN IF IsSome(info)
       THEN DetectionResult(Unwrap(info).os_name, Unwrap(info).device_class,
                            Unwrap(info).vendor, 95, "MAC/Fingerprint lookup",
                            None, None)
       ELSE DetectionResult("Unknown", "Unknown", "Unknown", 0, "None",
                            None, None)

\* str::contains for a non-empty pattern
Contains(s, pat) ==
  \E i \in 1..(Len(s) - Len(pat) + 1) : SubSeq(s, i, i + Len(pat) - 1) = pat

\* the gate with an absent vendor class let through
should_probe_smb_absentVendor(cfg, ip_address, vendor_class) ==
  /\ cfg.enable_smb_probing
  /\ ip_address # IP_UNSPECIFIED
  /\ IF IsSome(vendor_class) THEN Contains(Unwrap(vendor_class), Str_MSFT)
                             ELSE TRUE

should_probe_smb(cfg, ip_address, vendor_class) ==
  /\ cfg.enable_smb_probing
  /\ ip_address # IP_UNSPECIFIED
  /\ IF IsSome(vendor_class) THEN Contains(Unwrap(vendor_class), Str_MSFT)
                             ELSE FALSE

\* format!("SMB probe ({})", dialect)
SmbProbeMethod(dialect) == "SMB probe (" \o dialect \o ")"

\* the fusion with the vendor taken from the baseline like the device class
combine_results_baselineVendor(dhcp_result, smb_result) ==
  DetectionResult(smb_result.os_version, dhcp_result.device_class,
                  dhcp_result.vendor, 95,
                  SmbProbeMethod(smb_result.smb_dialect),
                  Some(smb_result.smb_dialect), smb_result.build_number)

\* a fusion that keeps the name of a baseline that has one
combine_results_baselineName(dhcp_result, smb_result) ==
  DetectionResult(IF dhcp_result.os_name = "Unknown"
                    THEN smb_result.os_version ELSE dhcp_result.os_name,
                  dhcp_result.device_class,
                  "Microsoft", 95, SmbProbeMethod(smb_result.smb_dialect),
                  Some(smb_result.smb_dialect), smb_result.build_number)

combine_results(dhcp_result, smb_result) ==
  DetectionResult(smb_result.os_version, dhcp_result.device_class,
                  "Microsoft", 95, SmbProbeMethod(smb_result.smb_dialect),
                  Some(smb_result.smb_dialect), smb_result.build_number)

\* the match without the guard on success
FuseOrFallBack_ignoresSuccess(dhcp_result, smb_opt) ==
  IF IsSome(smb_opt)
    THEN combine_results(dhcp_result, Unwrap(smb_opt))
    ELSE dhcp_result

\* the match on probe_smb_cached's Option<SmbProbeResult> in detect
FuseOrFallBack(dhcp_result, smb_opt) ==
  IF IsSome(smb_opt) /\ Unwrap(smb_opt).success
    THEN combine_results(dhcp_result, Unwrap(smb_opt))
    ELSE dhcp_result

\* the freshness test with the expiry second still counted as fresh
CacheEntryUsable_inclusive(entry, now_secs, ttl) ==
  now_secs - entry.timestamp <= ttl

\* the freshness test of probe_smb_cached
CacheEntryUsable(entry, now_secs, ttl) == now_secs - entry.timestamp < ttl

\* the match with a ping error treated like an unreachable host
ProceedAfterPing_errorAborts(ping) == ping = "reachable"

\* the match on ping_host's Result<bool> in detect: TRUE = go on to the cache
ProceedAfterPing(ping) ==
  CASE ping = "reachable" -> TRUE
    [] ping = "unreachable" -> FALSE
    [] OTHER -> TRUE

PingOutcomes == {"reachable", "unreachable", "error"}

\* ----------------------------------------------------------- pure: dhcp
DhcpOption(code, option_data) == [code |-> code, data |-> option_data]

\* 99, 130, 83, 99
MAGIC_COOKIE == <<99, 130, 83, 99>>

\* line 93 without the test: the length byte is read wherever i points
HasLengthByte_unchecked(buf, i) == TRUE

\* line 93: a byte is left for the length (the negation of i >= data.len())
HasLengthByte(buf, i) == ~(i >= Len(buf))

\* line 100 without the test: the slice is taken whatever the length says
OptionFits_unchecked(buf, i, len) == TRUE

\* line 100: the declared length stays inside the buffer (the negation of
\* i + len > data.len())
OptionFits(buf, i, len) == ~(i + len > Len(buf))

\* line 84: the End option
IsEnd(code) == code = 255

\* a parser that takes 0 for an option code like any other
IsPad_never(code) == FALSE

\* line 89: the Pad option
IsPad(code) == code = 0

\* the loop of parse_options (lines 79-111) from offset i on, with the
\* options stored so far; an index or a slice outside the buffer is a panic
RECURSIVE parse_options_loop(_, _, _)
parse_options_loop(buf, i, options) ==
  IF ~(i < Len(buf))
    THEN <<"Ok", options>>
    ELSE LET code == buf[i + 1]
         IN IF IsEnd(code) THEN <<"Ok", options>>
            ELSE IF IsPad(code) THEN parse_options_loop(buf, i + 1, options)
            ELSE IF ~HasLengthByte(buf, i + 1) THEN <<"Ok", options>>
            ELSE IF ~(i + 1 < Len(buf)) THEN <<"Panic">>
            ELSE LET len == buf[i + 2]
                 IN IF ~OptionFits(buf, i + 2, len) THEN <<"Ok", options>>
                    ELSE IF i + 2 + len > Len(buf) THEN <<"Panic">>
                    ELSE parse_options_loop(
                           buf, i + 2 + len,
                           Append(options,
                                  DhcpOption(code,
                                             SubSeq(buf, i + 3, i + 2 + len))))

\* DhcpPacket::parse_options on the slice data[236..]
parse_options(buf) ==
  IF Len(buf) < 4 \/ SubSeq(buf, 1, 4) # MAGIC_COOKIE
    THEN <<"Err", "Invalid DHCP magic cookie">>
    ELSE parse_options_loop(buf, 4, <<>>)

\* u32::from_be_bytes
u32_from_be_bytes(b) ==
  ((b[1] * 256 + b[2]) * 256 + b[3]) * 256 + b[4]

\* DhcpPacket::parse: <<"Ok", packet>>, <<"Err", message>> or <<"Panic">>
parse(buf) ==
  IF Len(buf) < 236
    THEN <<"Err", "DHCP packet too short">>
    ELSE LET options == parse_options(SubSeq(buf, 237, Len(buf)))
         IN IF options[1] # "Ok"
              THEN options
              ELSE <<"Ok", [op |-> buf[1], htype |-> buf[2], hlen |-> buf[3],
                            hops |-> buf[4],
                            xid |-> u32_from_be_bytes(SubSeq(buf, 5, 8)),
                            secs |-> buf[9] * 256 + buf[10],
                            flags |-> buf[11] * 256 + buf[12],
                            ciaddr |-> SubSeq(buf, 13, 16),
                            yiaddr |-> SubSeq(buf, 17, 20),
                            siaddr |-> SubSeq(buf, 21, 24),
                            giaddr |-> SubSeq(buf, 25, 28),
                            chaddr |-> SubSeq(buf, 29, 44),
                            options |-> options[2]]>>

\* format!("{:02x}", b)
Hex2(b) ==
  SubSeq("0123456789abcdef", (b \div 16) + 1, (b \div 16) + 1)
    \o SubSeq("0123456789abcdef", (b % 16) + 1, (b % 16) + 1)

\* collect::<Vec<_>>().join(sep) over the rendered strings
RECURSIVE join_from(_, _, _)
join_from(strings, i, sep) ==
  IF i > Len(strings) THEN ""
  ELSE IF i = Len(strings) THEN strings[i]
  ELSE strings[i] \o sep \o join_from(strings, i + 1, sep)

join(strings, sep) == join_from(strings, 1, sep)

\* the rendering with six bytes whatever hlen says
get_mac_address_sixBytes(packet) ==
  join([i \in 1..6 |-> Hex2(packet.chaddr[i])], ":")

\* DhcpPacket::get_mac_address
get_mac_address(packet) ==
  IF packet.hlen > 16
    THEN ""
    ELSE join([i \in 1..packet.hlen |-> Hex2(packet.chaddr[i])], ":")

\* DhcpPacket::get_option: the first option with that code
get_option(packet, code) ==
  LET hits == {i \in 1..Len(packet.options) : packet.options[i].code = code}
  IN IF hits = {} THEN None
     ELSE Some(packet.options[CHOOSE i \in hits : \A j \in hits : i <= j])

\* DhcpPacket::get_message_type
get_message_type(packet) ==
  LET opt == get_option(packet, 53)
  IN IF IsSome(opt) /\ Len(Unwrap(opt).data) > 0
       THEN Some(Unwrap(opt).data[1])
       ELSE None

\* u8::to_string
ByteToString(b) == ToString(b)

\* DhcpPacket::get_fingerprint
get_fingerprint(packet) ==
  LET opt == get_option(packet, 55)
  IN IF IsSome(opt)
       THEN join([i \in 1..Len(Unwrap(opt).data) |->
                   ByteToString(Unwrap(opt).data[i])], ",")
       ELSE ""

\* the characters 0x20..0x5F and 0x61..0x7E
ASCII_20_5F ==
  " !\"#$%&'()*+,-./0123456789:;<=>?@ABCDEFGHIJKLMNOPQRSTUVWXYZ[\\]^_"
ASCII_61_7E == "abcdefghijklmnopqrstuvwxyz{|}~"

\* String::from_utf8_lossy on bytes that are printable ASCII (the vendor
\* classes the model sends), one character per byte; a byte outside that
\* range is shown by its code point, U+FFFD for an ill-formed one
from_utf8_lossy(bytes) ==
  [i \in 1..Len(bytes) |->
     CASE bytes[i] >= 32 /\ bytes[i] <= 95 ->
            SubSeq(ASCII_20_5F, bytes[i] - 31, bytes[i] - 31)
       [] bytes[i] >= 97 /\ bytes[i] <= 126 ->
            SubSeq(ASCII_61_7E, bytes[i] - 96, bytes[i] - 96)
       [] bytes[i] >= 128 -> "U+FFFD"
       [] OTHER -> "U+00" \o Hex2(bytes[i])]

\* DhcpPacket::get_vendor_class
get_vendor_class(packet) ==
  LET opt == get_option(packet, 60)
  IN IF IsSome(opt) THEN Some(from_utf8_lossy(Unwrap(opt).data)) ELSE None

\* the match with an arm for 2
MessageTypeName_withOffer(message_type) ==
  IF ~IsSome(message_type) THEN "UNKNOWN"
  ELSE CASE Unwrap(message_type) = 1 -> "DISCOVER"
         [] Unwrap(message_type) = 2 -> "OFFER"
         [] Unwrap(message_type) = 3 -> "REQUEST"
         [] Unwrap(message_type) = 4 -> "DECLINE"
         [] Unwrap(message_type) = 5 -> "ACK"
         [] Unwrap(message_type) = 6 -> "NAK"
         [] Unwrap(message_type) = 7 -> "RELEASE"
         [] Unwrap(message_type) = 8 -> "INFORM"
         [] OTHER -> "UNKNOWN"

\* the match of from_packet on get_message_type (lines 179-188)
MessageTypeName(message_type) ==
  IF ~IsSome(message_type) THEN "UNKNOWN"
  ELSE CASE Unwrap(message_type) = 1 -> "DISCOVER"
         [] Unwrap(message_type) = 3 -> "REQUEST"
         [] Unwrap(message_type) = 4 -> "DECLINE"
         [] Unwrap(message_type) = 5 -> "ACK"
         [] Unwrap(message_type) = 6 -> "NAK"
         [] Unwrap(message_type) = 7 -> "RELEASE"
         [] Unwrap(message_type) = 8 -> "INFORM"
         [] OTHER -> "UNKNOWN"

\* ------------------------------------------------------------- pure: db
\* the columns of CREATE TABLE IF NOT EXISTS dhcp_requests in SCHEMA
SCHEMA_COLUMNS ==
  {"id", "timestamp", "source_ip", "source_port", "mac_address",
   "message_type", "xid", "fingerprint", "vendor_class", "raw_options",
   "created_at"}

\* the columns named by the INSERT of insert_request
INSERT_COLUMNS ==
  {"timestamp", "source_ip", "source_port", "mac_address", "message_type",
   "xid", "fingerprint", "vendor_class", "os_name", "device_class",
   "raw_options", "detection_method", "confidence", "smb_dialect",
   "smb_build"}

\* SQLite prepares the INSERT only if the table has every named column
InsertAccepted(columns) == INSERT_COLUMNS \subseteq columns

\* ------------------------------------------------- pure: broadcast channel
\* tokio::sync::broadcast as the program uses it: the values accepted so far
\* are numbered from 1, the channel retains the newest
\* BROADCAST_CHANNEL_SIZE of them, and each receiver holds the number of
\* values it is past
Max(a, b) == IF a > b THEN a ELSE b

\* how many of the accepted values have been overwritten
Overwritten(items) == Max(0, Len(items) - BROADCAST_CHANNEL_SIZE)

\* Sender::send never waits for a receiver
SendReady_waitsForSlowest(items, cursors) ==
  \A n \in cursors : Len(items) - n < BROADCAST_CHANNEL_SIZE

\* Sender::send is not async: whether the call can complete
SendReady(items, cursors) == TRUE

\* Sender::send: Err(SendError) and the value is gone when there is no
\* receiver, otherwise the value is stored
send(ch, rx_cnt, x) ==
  IF rx_cnt = 0 THEN [ch EXCEPT !.dropped = Append(@, x)]
                ELSE [ch EXCEPT !.items = Append(@, x)]

\* Receiver::recv for a receiver past next values: Lagged(n) moves it to the
\* oldest retained value, Ok(v) moves it by one, otherwise it waits
recv(items, next) ==
  IF next < Overwritten(items)
    THEN [kind |-> "Lagged", value |-> Overwritten(items) - next,
          next |-> Overwritten(items)]
  ELSE IF next < Len(items)
    THEN [kind |-> "Ok", value |-> items[next + 1], next |-> next + 1]
  ELSE [kind |-> "Pending", value |-> 0, next |-> next]

\* ------------------------------------------------------------------ state
VARIABLES
  config,        \* HybridConfig, fixed at construction
  mac_mappings,  \* MAC_MAPPINGS, loaded once at startup
  now,           \* SystemTime::now() in epoch seconds; start_time is 0
  smb_cache,     \* HybridDetector.smb_cache: ip -> SmbCacheEntry
  pc,            \* position of each spawned task
  req,           \* the DhcpRequest each task carries
  det,           \* locals of the detect call of each task
  obs,           \* history variable: what each task has done so far
  logfile,       \* records appended to request.json, in order
  db,            \* rows inserted into dhcp_requests, in order
  history,       \* AppState.history, oldest first
  pushed,        \* history variable: every push_overwrite so far, in order
  stats,         \* AppState.stats
  unique_macs,   \* AppState.unique_macs
  stats_lock,    \* RwLock of stats: writer task (0 = none), reader count
  macs_lock,     \* RwLock of unique_macs: writer task (0 = none)
  hub,           \* every item handed to broadcast_tx.send, in order
  rd_pc,         \* position of the get_stats reader
  hist_out,      \* what the last get_history call was asked and returned
  received,      \* datagrams received (detect calls made, in SpecDetect)
  datagram,      \* the bytes recv_from handed to each task
  packet,        \* what DhcpPacket::parse returned in each task
  table,         \* the columns of dhcp_requests once create_pool has run
  chan,          \* the broadcast channel behind broadcast_tx
  ws,            \* the locals of each handle_websocket call
  build,         \* the argument of a build_to_windows_version call
  version,       \* what that call returned
  cache_call,    \* the last clear_cache or cache_stats call and its result
  search_out,    \* what the last search_history call was asked and returned
  guards,        \* each lock: its write holder, read holders and waiters
  callers        \* each call that takes locks: which one, where it is

vars == <<config, mac_mappings, now, smb_cache, pc, req, det, obs, logfile,
          db, history, pushed, stats, unique_macs, stats_lock, macs_lock,
          hub, rd_pc, hist_out, received, datagram, packet, table, chan, ws,
          build, version, cache_call, search_out, guards, callers>>

cfgVars == <<config, mac_mappings, table>>
decoderVars == <<datagram, packet>>
wsVars == <<chan, ws>>
guardVars == <<guards, callers>>
helperVars == <<build, version, cache_call, search_out, guardVars>>
readerVars == <<rd_pc, hist_out>>
sinkVars == <<logfile, db, history, pushed, stats, unique_macs, stats_lock,
              macs_lock, hub>>

DhcpRequest(id, ip, mac, mt, fp, vc, os, dc) ==
  [id |-> id, source_ip |-> ip, mac_address |-> mac, message_type |-> mt,
   fingerprint |-> fp, vendor_class |-> vc, os_name |-> os,
   device_class |-> dc, detection_method |-> None, confidence |-> None,
   smb_dialect |-> None, smb_build |-> None]

NoRequest == DhcpRequest(0, "", "", "", "", None, None, None)

NoResult == DetectionResult("", "", "", 0, "", None, None)

NoDetect == [baseline |-> NoResult, smb |-> None, stamp |-> 0,
             result |-> NoResult]

NoCacheCall == [op |-> "none", after |-> "none", n |-> 0, total |-> 0,
                expired |-> 0]

NoSearch == [mac |-> None, vendor |-> None, msg_type |-> None,
             entries |-> <<>>]

NoObs == [ping |-> "none", lookups |-> 0, seen |-> None, age |-> 0,
          hit |-> FALSE, dials |-> 0, probe |-> None, stores |-> 0,
          sinks |-> <<>>, errors |-> {}]

\* a connection that has not been made
NoSocket == [pc |-> "none", start |-> 0, next |-> 0, ring |-> <<>>,
             burst |-> <<>>, item |-> 0, sent |-> <<>>, lagged |-> 0]

\* a connection that has ended: its locals are gone, lagged is kept as a
\* history variable
Closed(w) == [NoSocket EXCEPT !.pc = "closed", !.lagged = w.lagged]

\* the connections whose broadcast Receiver is alive: from subscribe until
\* handle_websocket returns or its send task ends
HasReceiver(w) == w.pc \in {"prime", "burst", "live", "send"}
Receivers(sockets) == {s \in Subscribers : HasReceiver(sockets[s])}
Cursors(sockets) == {sockets[s].next : s \in Receivers(sockets)}

Statistics_default ==
  [total_requests |-> 0, request_types |-> <<>>, unique_macs |-> 0,
   requests_per_minute |-> <<0, 1>>, last_updated |-> 0,
   uptime_seconds |-> 0, vendor_classes |-> <<>>]

\* a counter that is set to 1 again on every request
Bump_reset(map, k) ==
  [x \in DOMAIN map \cup {k} |-> IF x = k THEN 1 ELSE map[x]]

\* HashMap entry(k).or_insert(0) += 1 on a map held as a function
Bump(map, k) ==
  IF k \in DOMAIN map
    THEN [map EXCEPT ![k] = @ + 1]
    ELSE [x \in DOMAIN map \cup {k} |-> IF x = k THEN 1 ELSE map[x]]

\* HashMap::insert on a map held as a function
\* an insert that keeps the value a key already has
MapInsert_keepFirst(map, k, v) ==
  [x \in DOMAIN map \cup {k} |-> IF x \in DOMAIN map THEN map[x] ELSE v]

MapInsert(map, k, v) ==
  [x \in DOMAIN map \cup {k} |-> IF x = k THEN v ELSE map[x]]

\* DhcpRequest::from_packet for a packet that decoded to these values
from_packet(id, ip, mac, mt, fp, vc, mappings) ==
  LET info == IF fp # "" THEN lookup_os(mappings, mac, fp) ELSE None
  IN DhcpRequest(id, ip, mac, mt, fp, vc,
                 IF IsSome(info) THEN Some(Unwrap(info).os_name) ELSE None,
                 IF IsSome(info) THEN Some(Unwrap(info).device_class) ELSE None)

\* ------------------------------------------------------------ construction
MacOverride == OsInfo("Windows Server 2022", "Server", "Microsoft")
MappingChoices == {<<>>, [m \in {MAC_1} |-> MacOverride]}
TtlChoices == {1, 2}

\* the locks of the program: HybridDetector.smb_cache, RequestLogger.file,
\* AppState.history, AppState.stats, AppState.unique_macs
Locks == {"smb_cache", "log_file", "history", "stats", "unique_macs"}
Unlocked == [writer |-> 0, readers |-> {}, queue |-> <<>>]
NoCaller == [kind |-> "none", at |-> 0, waiting |-> FALSE]

InitCommon ==
  /\ now = 0
  /\ smb_cache = <<>>
  /\ pc = [t \in Tasks |-> "idle"]
  /\ req = [t \in Tasks |-> NoRequest]
  /\ det = [t \in Tasks |-> NoDetect]
  /\ obs = [t \in Tasks |-> NoObs]
  /\ logfile = <<>>
  /\ db = <<>>
  /\ history = <<>>
  /\ pushed = <<>>
  /\ stats = Statistics_default
  /\ unique_macs = {}
  /\ stats_lock = [writer |-> 0, readers |-> 0]
  /\ macs_lock = 0
  /\ hub = <<>>
  /\ rd_pc = "idle"
  /\ hist_out = [limit |-> 0, at |-> 0, entries |-> <<>>]
  /\ received = 0
  /\ datagram = [t \in Tasks |-> <<>>]
  /\ packet = [t \in Tasks |-> <<"None">>]
  /\ chan = [items |-> <<>>, dropped |-> <<>>]
  /\ ws = [s \in Subscribers |-> NoSocket]
  /\ build = 0
  /\ version = ""
  /\ cache_call = NoCacheCall
  /\ search_out = NoSearch
  /\ guards = [l \in Locks |-> Unlocked]
  /\ callers = [c \in Callers |-> NoCaller]

\* ---------------------------------------------------------- clock (env)
Tick ==
  /\ now < MaxTime
  /\ now' = now + 1
  /\ UNCHANGED <<cfgVars, decoderVars, wsVars, helperVars, smb_cache, pc, req, det, obs, received, sinkVars,
                 readerVars>>

\* ------------------------------------------------- HybridDetector::detect
\* lines 74-83 and 127-149: baseline, the gate, and the return without probe
\* a refinement that consults the cache before the reachability check
AfterGate_cacheFirst(should) == IF should THEN "cache" ELSE "detected"

\* lines 83-95: a call let through the gate goes to ping_host first, any
\* other call to the fall back at the end of detect
AfterGate(should) == IF should THEN "ping" ELSE "detected"

DetectStart(t) ==
  /\ pc[t] = "detect"
  /\ LET dhcp_result == detect_via_dhcp(mac_mappings, req[t].mac_address,
                                        req[t].fingerprint)
         should == should_probe_smb(config, req[t].source_ip,
                                    req[t].vendor_class)
     IN /\ pc' = [pc EXCEPT ![t] = AfterGate(should)]
        /\ IF should
             THEN det' = [det EXCEPT ![t].baseline = dhcp_result]
             ELSE det' = [det EXCEPT ![t].baseline = dhcp_result,
                                     ![t].result = dhcp_result]
  /\ UNCHANGED <<cfgVars, decoderVars, wsVars, helperVars, now, smb_cache, req, obs, received, sinkVars,
                 readerVars>>

\* lines 93-109: ping_host and the match on its result
PingHost(t, ping) ==
  /\ pc[t] = "ping"
  /\ obs' = [obs EXCEPT ![t].ping = ping]
  /\ IF ProceedAfterPing(ping)
       THEN /\ pc' = [pc EXCEPT ![t] = "cache"]
            /\ det' = det
       ELSE /\ pc' = [pc EXCEPT ![t] = "detected"]
            /\ det' = [det EXCEPT ![t].result = det[t].baseline]
  /\ UNCHANGED <<cfgVars, decoderVars, wsVars, helperVars, now, smb_cache, req, received, sinkVars, readerVars>>

\* probe_smb_cached lines 220-234, and on a hit the match of detect 111-126
CacheLookup(t) ==
  /\ pc[t] = "cache"
  /\ LET ip == req[t].source_ip
         present == ip \in DOMAIN smb_cache
         usable == IF present
                     THEN CacheEntryUsable(smb_cache[ip], now,
                                           config.smb_cache_ttl_secs)
                     ELSE FALSE
     IN /\ obs' = [obs EXCEPT
                     ![t].lookups = @ + 1,
                     ![t].seen = IF present THEN Some(smb_cache[ip]) ELSE None,
                     ![t].age = IF present THEN now - smb_cache[ip].timestamp
                                           ELSE 0,
                     ![t].hit = usable]
        /\ IF usable
             THEN /\ det' = [det EXCEPT
                        ![t].smb = Some(smb_cache[ip].result),
                        ![t].result = FuseOrFallBack(det[t].baseline,
                                                     Some(smb_cache[ip].result))]
                  /\ pc' = [pc EXCEPT ![t] = "detected"]
             ELSE /\ det' = det
                  /\ pc' = [pc EXCEPT ![t] = "probe"]
  /\ UNCHANGED <<cfgVars, decoderVars, wsVars, helperVars, now, smb_cache, req, received, sinkVars, readerVars>>

\* an entry counted as expired only once it is older than the ttl
IsExpired_strict(entry, now_secs, ttl) == now_secs - entry.timestamp > ttl

\* cache_stats line 302: the filter on the entries
IsExpired(entry, now_secs, ttl) == now_secs - entry.timestamp >= ttl

\* cache_stats lines 300-305: (total, expired)
cache_stats(cache, now_secs, ttl) ==
  <<Cardinality(DOMAIN cache),
    Cardinality({ip \in DOMAIN cache : IsExpired(cache[ip], now_secs, ttl)})>>

\* clear_cache line 288: HashMap::clear
clear_cache(cache) == <<>>

\* what probe_smb_cached does with the Result of probe_smb (lines 239-262):
\* TRUE = insert it into the cache
CachesResult(r) == r[1] = "Ok"

\* a detector that hands the error of probe_smb to its caller
AfterProbe_raises(r) == IF CachesResult(r) THEN "store" ELSE "failed"

\* probe_smb_cached lines 239-262: Ok goes on to the cache insert, Err is
\* logged and becomes None, with which detect returns the baseline
AfterProbe(r) == IF CachesResult(r) THEN "store" ELSE "detected"

\* probe_smb_cached lines 236-247 and 257-261: the dial and the exchange,
\* then the clock read that stamps the entry
ProbeSmb(t, outcome) ==
  /\ pc[t] = "probe"
  /\ obs' = [obs EXCEPT
               ![t].dials = @ + 1,
               ![t].probe = Some([outcome |-> outcome,
                                  returned |-> probe_smb(outcome)])]
  /\ LET r == probe_smb(outcome)
         smb == IF r[1] = "Ok" THEN Some(r[2]) ELSE None
     IN /\ pc' = [pc EXCEPT ![t] = AfterProbe(r)]
        /\ IF CachesResult(r)
             THEN det' = [det EXCEPT ![t].smb = smb, ![t].stamp = now]
             ELSE det' = [det EXCEPT
                            ![t].smb = smb,
                            ![t].result = FuseOrFallBack(det[t].baseline, smb)]
  /\ UNCHANGED <<cfgVars, decoderVars, wsVars, helperVars, now, smb_cache, req, received, sinkVars, readerVars>>

\* probe_smb_cached lines 249-255, then the match of detect 111-126
CacheInsert(t) ==
  /\ pc[t] = "store"
  /\ smb_cache' = MapInsert(smb_cache, req[t].source_ip,
                            [result |-> Unwrap(det[t].smb),
                             timestamp |-> det[t].stamp])
  /\ obs' = [obs EXCEPT ![t].stores = @ + 1]
  /\ det' = [det EXCEPT ![t].result = FuseOrFallBack(det[t].baseline, det[t].smb)]
  /\ pc' = [pc EXCEPT ![t] = "detected"]
  /\ UNCHANGED <<cfgVars, decoderVars, wsVars, helperVars, now, req, received, sinkVars, readerVars>>

\* a caller other than the processor calls detect(mac, ip, fingerprint,
\* vendor_class); the arguments are kept in the request record
DetectCall(t, ip, mac, fp, vc) ==
  /\ pc[t] = "idle"
  /\ received < MaxCalls
  /\ received' = received + 1
  /\ req' = [req EXCEPT ![t] = DhcpRequest(received + 1, ip, mac, "REQUEST",
                                            fp, vc, None, None)]
  /\ pc' = [pc EXCEPT ![t] = "detect"]
  /\ UNCHANGED <<cfgVars, decoderVars, wsVars, helperVars, now, smb_cache, det, obs, sinkVars, readerVars>>

\* that caller takes the DetectionResult; the locals of the call are gone
DetectReturn(t) ==
  /\ pc[t] = "detected"
  /\ req' = [req EXCEPT ![t] = NoRequest]
  /\ det' = [det EXCEPT ![t] = NoDetect]
  /\ obs' = [obs EXCEPT ![t] = NoObs]
  /\ pc' = [pc EXCEPT ![t] = "idle"]
  /\ UNCHANGED <<cfgVars, decoderVars, wsVars, helperVars, now, smb_cache, received, sinkVars, readerVars>>

\* clear_cache (lines 286-290): the write guard, clear, the guard dropped
ClearCache ==
  /\ cache_call.n < MaxCalls
  /\ smb_cache' = clear_cache(smb_cache)
  /\ cache_call' = [op |-> "clear_cache", after |-> cache_call.op,
                    n |-> cache_call.n + 1, total |-> 0, expired |-> 0]
  /\ UNCHANGED <<cfgVars, decoderVars, wsVars, build, version, search_out,
                 guardVars,
                 now, pc, req, det, obs, received, sinkVars, readerVars>>

\* cache_stats (lines 293-306): the read guard, the clock, the two counts
CacheStats ==
  /\ cache_call.n < MaxCalls
  /\ LET r == cache_stats(smb_cache, now, config.smb_cache_ttl_secs)
     IN cache_call' = [op |-> "cache_stats", after |-> cache_call.op,
                       n |-> cache_call.n + 1, total |-> r[1],
                       expired |-> r[2]]
  /\ UNCHANGED <<cfgVars, decoderVars, wsVars, build, version, search_out,
                 guardVars,
                 now, smb_cache, pc, req, det, obs, received, sinkVars,
                 readerVars>>

\* ------------------------------------------------ run_udp_listener (main)
\* the decoded datagrams the pipeline is driven with: a Windows client that
\* qualifies for the SMB refinement and a client that does not
Datagram(ip, mac, mt, fp, vc) ==
  [ip |-> ip, mac |-> mac, mt |-> mt, fp |-> fp, vc |-> vc]
PipelineDatagrams ==
  {Datagram(IP_A, MAC_1, "REQUEST", FP_WIN11, Some(Vendor_MSFT50)),
   Datagram(IP_UNSPECIFIED, MAC_2, "DISCOVER", FP_UNKNOWN, None)}
PipelineProbeOutcomes ==
  {[kind |-> "refused"], [kind |-> "read_timeout"],
   [kind |-> "read", response |-> ResponseBytes(70, SMB2_SIGNATURE, 17, 3)]}

\* main.rs 63-75 and 83-115: a datagram that decodes spawns a task, which
\* builds the DhcpRequest and calls process_request; id is the arrival number
Receive(t, d) ==
  /\ pc[t] = "idle"
  /\ received < MaxDatagrams
  /\ received' = received + 1
  /\ req' = [req EXCEPT ![t] = from_packet(received + 1, d.ip, d.mac, d.mt,
                                           d.fp, d.vc, mac_mappings)]
  /\ pc' = [pc EXCEPT ![t] = "detect"]
  /\ UNCHANGED <<cfgVars, decoderVars, wsVars, helperVars, now, smb_cache, det, obs, sinkVars, readerVars>>

\* main.rs 70-74: the spawned task ends when process_request has returned
Retire(t) ==
  /\ pc[t] = "done"
  /\ req' = [req EXCEPT ![t] = NoRequest]
  /\ obs' = [obs EXCEPT ![t] = NoObs]
  /\ pc' = [pc EXCEPT ![t] = "idle"]
  /\ UNCHANGED <<cfgVars, decoderVars, wsVars, helperVars, now, smb_cache, det, received, sinkVars, readerVars>>

\* ------------------------------------------- handle_dhcp_request (main)
\* main.rs 64-75: recv_from returns len bytes and a task is spawned for
\* them; the arrival number is kept in the id of the request to be built
RecvFrom(t, bytes) ==
  /\ pc[t] = "idle"
  /\ received < MaxDatagrams
  /\ received' = received + 1
  /\ datagram' = [datagram EXCEPT ![t] = bytes]
  /\ req' = [req EXCEPT ![t] = [NoRequest EXCEPT !.id = received + 1]]
  /\ pc' = [pc EXCEPT ![t] = "parse"]
  /\ UNCHANGED <<cfgVars, wsVars, helperVars, packet, now, smb_cache, det, obs,
                 sinkVars, readerVars>>

\* a handler that goes on with a datagram that did not decode
AfterParse_processAnyway(kind) ==
  CASE kind = "Ok" -> "build"
    [] kind = "Err" -> "history"
    [] OTHER -> "panicked"

\* main.rs 89-95: the match on the result of DhcpPacket::parse
AfterParse(kind) ==
  CASE kind = "Ok" -> "build"
    [] kind = "Err" -> "dropped"
    [] OTHER -> "panicked"

\* main.rs 89-95: DhcpPacket::parse; on Err the handler warns and returns
\* Ok(()), a panic ends the task
ParsePacket(t) ==
  /\ pc[t] = "parse"
  /\ packet' = [packet EXCEPT ![t] = parse(datagram[t])]
  /\ pc' = [pc EXCEPT ![t] = AfterParse(parse(datagram[t])[1])]
  /\ UNCHANGED <<cfgVars, wsVars, helperVars, datagram, now, smb_cache, req,
                 det, obs, received, sinkVars, readerVars>>

\* main.rs 115: DhcpRequest::from_packet on the decoded packet
BuildRequest(t, ip) ==
  /\ pc[t] = "build"
  /\ \E p \in {packet[t][2]} :
       \E mac \in {get_mac_address(p)}, fp \in {get_fingerprint(p)} :
         req' = [req EXCEPT ![t] =
                   from_packet(req[t].id, ip, mac,
                               MessageTypeName(get_message_type(p)),
                               fp, get_vendor_class(p), mac_mappings)]
  /\ pc' = [pc EXCEPT ![t] = "detect"]
  /\ UNCHANGED <<cfgVars, decoderVars, wsVars, helperVars, now, smb_cache, det, obs, received,
                 sinkVars, readerVars>>

\* main.rs 93, 184 and 70-74: handle_dhcp_request returns Ok(()) and the
\* spawned task ends; its locals are gone
HandlerReturn(t) ==
  /\ pc[t] \in {"dropped", "done"}
  /\ pc' = [pc EXCEPT ![t] = "idle"]
  /\ req' = [req EXCEPT ![t] = NoRequest]
  /\ obs' = [obs EXCEPT ![t] = NoObs]
  /\ datagram' = [datagram EXCEPT ![t] = <<>>]
  /\ packet' = [packet EXCEPT ![t] = <<"None">>]
  /\ UNCHANGED <<cfgVars, wsVars, helperVars, now, smb_cache, det, received,
                 sinkVars, readerVars>>

\* ------------------------------------------- AppState::process_request
\* the sinks with the publish moved before the statistics update
StageAfter_publishEarly(stage) ==
  CASE stage = "enrich" -> "log"
    [] stage = "log" -> "db"
    [] stage = "db" -> "history"
    [] stage = "history" -> "broadcast"
    [] stage = "broadcast" -> "stats"
    [] OTHER -> "done"

\* the sinks with the statistics update left out
StageAfter_noStats(stage) ==
  CASE stage = "enrich" -> "log"
    [] stage = "log" -> "db"
    [] stage = "db" -> "history"
    [] stage = "history" -> "broadcast"
    [] OTHER -> "done"

\* the request published before it is pushed into the ring
StageAfter_publishBeforePush(stage) ==
  CASE stage = "enrich" -> "log"
    [] stage = "log" -> "db"
    [] stage = "db" -> "broadcast"
    [] stage = "broadcast" -> "history"
    [] stage = "history" -> "stats"
    [] OTHER -> "done"

\* the statistics updated before the push into the ring
StageAfter_statsFirst(stage) ==
  CASE stage = "enrich" -> "log"
    [] stage = "log" -> "db"
    [] stage = "db" -> "stats"
    [] stage = "stats" -> "history"
    [] stage = "history" -> "broadcast"
    [] OTHER -> "done"

\* the order of the sinks in process_request (lines 105-125)
StageAfter(stage) ==
  CASE stage = "enrich" -> "log"
    [] stage = "log" -> "db"
    [] stage = "db" -> "history"
    [] stage = "history" -> "stats"
    [] stage = "stats" -> "broadcast"
    [] OTHER -> "done"

Ran(o, stage, ok) ==
  [o EXCEPT !.sinks = Append(@, stage),
            !.errors = IF ok THEN @ ELSE @ \cup {stage}]

\* a processor that hands the request on as it came from from_packet
Overlay_nothing(request, detection_result) == request

\* lines 96-101: the six assignments to the request
Overlay(request, detection_result) ==
  [request EXCEPT
     !.os_name = Some(detection_result.os_name),
     !.device_class = Some(detection_result.device_class),
     !.detection_method = Some(detection_result.detection_method),
     !.confidence = Some(detection_result.confidence),
     !.smb_dialect = detection_result.smb_dialect,
     !.smb_build = detection_result.smb_build]

\* lines 88-103: detect has returned; overlay its result on the request
Enrich(t) ==
  /\ pc[t] = "detected"
  /\ req' = [req EXCEPT ![t] = Overlay(req[t], det[t].result)]
  /\ det' = [det EXCEPT ![t] = NoDetect]
  /\ obs' = [obs EXCEPT ![t] = NoObs]
  /\ pc' = [pc EXCEPT ![t] = StageAfter("enrich")]
  /\ UNCHANGED <<cfgVars, decoderVars, wsVars, helperVars, now, smb_cache, received, sinkVars, readerVars>>

\* a persistence error propagated with ? instead of being logged
ContinuesAfter_propagate(ok) == ok

\* what process_request does when a persistence sink returns Err (lines
\* 106-113): TRUE = go on with the next sink
ContinuesAfter(ok) == TRUE

\* lines 105-108: RequestLogger::log; ok = FALSE is a failed write
LogRequest(t, ok) ==
  /\ pc[t] = "log"
  /\ logfile' = IF ok THEN Append(logfile, req[t]) ELSE logfile
  /\ obs' = [obs EXCEPT ![t] = Ran(@, "log", ok)]
  /\ pc' = [pc EXCEPT ![t] = IF ContinuesAfter(ok) THEN StageAfter("log")
                                                   ELSE "failed"]
  /\ UNCHANGED <<cfgVars, decoderVars, wsVars, helperVars, now, smb_cache, req, det, received, readerVars>>
  /\ UNCHANGED <<db, history, pushed, stats, unique_macs, stats_lock,
                 macs_lock, hub>>

\* lines 110-113: insert_request; ok = FALSE is a failure of the store
\* itself, and the statement is refused when the table lacks a column
InsertRequest(t, ok) ==
  /\ pc[t] = "db"
  /\ LET inserted == ok /\ InsertAccepted(table)
     IN /\ db' = IF inserted THEN Append(db, req[t]) ELSE db
        /\ obs' = [obs EXCEPT ![t] = Ran(@, "db", inserted)]
        /\ pc' = [pc EXCEPT ![t] = IF ContinuesAfter(inserted)
                                     THEN StageAfter("db") ELSE "failed"]
  /\ UNCHANGED <<cfgVars, decoderVars, wsVars, helperVars, now, smb_cache, req, det, received, readerVars>>
  /\ UNCHANGED <<logfile, history, pushed, stats, unique_macs, stats_lock,
                 macs_lock, hub>>

\* a push that replaces the newest entry of a full ring
push_overwrite_newest(ring, x) ==
  IF Len(ring) >= HISTORY_BUFFER_SIZE
    THEN Append(SubSeq(ring, 1, Len(ring) - 1), x)
    ELSE Append(ring, x)

\* HeapRb::push_overwrite on a ring held oldest first
push_overwrite(ring, x) ==
  IF Len(ring) >= HISTORY_BUFFER_SIZE THEN Append(Tail(ring), x)
                                      ELSE Append(ring, x)

\* lines 115-119: the write lock of history is taken, used and dropped
\* without an await in between
HistoryPush(t) ==
  /\ pc[t] = "history"
  /\ history' = push_overwrite(history, req[t])
  /\ pushed' = Append(pushed, req[t].id)
  /\ obs' = [obs EXCEPT ![t] = Ran(@, "history", TRUE)]
  /\ pc' = [pc EXCEPT ![t] = StageAfter("history")]
  /\ UNCHANGED <<cfgVars, decoderVars, wsVars, helperVars, now, smb_cache, req, det, received, readerVars>>
  /\ UNCHANGED <<logfile, db, stats, unique_macs, stats_lock, macs_lock, hub>>

\* ------------------------------------------- AppState::update_statistics
\* RwLock::write is granted when there is no writer and no reader
CanWrite(lock) == lock.writer = 0 /\ lock.readers = 0
\* a read that does not wait for the writer
CanRead_ignoresWriter(lock) == lock.readers >= 0

\* RwLock::read is granted when there is no writer
CanRead(lock) == lock.writer = 0

\* line 131: stats.write().await
StatsAcquire(t) ==
  /\ pc[t] = "stats"
  /\ CanWrite(stats_lock)
  /\ stats_lock' = [stats_lock EXCEPT !.writer = t]
  /\ pc' = [pc EXCEPT ![t] = "stats_macs"]
  /\ UNCHANGED <<cfgVars, decoderVars, wsVars, helperVars, now, smb_cache, req, det, obs, received, readerVars>>
  /\ UNCHANGED <<logfile, db, history, pushed, stats, unique_macs,
                 macs_lock, hub>>

\* line 132: unique_macs.write().await
MacsAcquire(t) ==
  /\ pc[t] = "stats_macs"
  /\ macs_lock = 0
  /\ macs_lock' = t
  /\ pc' = [pc EXCEPT ![t] = "stats_count"]
  /\ UNCHANGED <<cfgVars, decoderVars, wsVars, helperVars, now, smb_cache, req, det, obs, received, readerVars>>
  /\ UNCHANGED <<logfile, db, history, pushed, stats, unique_macs,
                 stats_lock, hub>>

\* lines 134-141: the total, the per-type counter and the set insert
StatsCount(t) ==
  /\ pc[t] = "stats_count"
  /\ stats' = [stats EXCEPT
       !.total_requests = @ + 1,
       !.request_types = Bump(@, req[t].message_type)]
  /\ unique_macs' = unique_macs \cup {req[t].mac_address}
  /\ pc' = [pc EXCEPT ![t] = "stats_finish"]
  /\ UNCHANGED <<cfgVars, decoderVars, wsVars, helperVars, now, smb_cache, req, det, obs, received, readerVars>>
  /\ UNCHANGED <<logfile, db, history, pushed, stats_lock, macs_lock, hub>>

\* lines 142-157: the MAC counter, the vendor counter, the rate (held as
\* <<total_requests, elapsed>>), the clock fields; both guards are dropped
StatsFinish(t) ==
  /\ pc[t] = "stats_finish"
  /\ stats' = [stats EXCEPT
       !.unique_macs = Cardinality(unique_macs),
       !.vendor_classes = IF IsSome(req[t].vendor_class)
                            THEN Bump(@, Unwrap(req[t].vendor_class)) ELSE @,
       !.requests_per_minute = IF now > 0 THEN <<stats.total_requests, now>>
                                          ELSE @,
       !.uptime_seconds = now,
       !.last_updated = now]
  /\ macs_lock' = 0
  /\ stats_lock' = [stats_lock EXCEPT !.writer = 0]
  /\ obs' = [obs EXCEPT ![t] = Ran(@, "stats", TRUE)]
  /\ pc' = [pc EXCEPT ![t] = StageAfter("stats")]
  /\ UNCHANGED <<cfgVars, decoderVars, wsVars, helperVars, now, smb_cache, req, det, received, readerVars>>
  /\ UNCHANGED <<logfile, db, history, pushed, unique_macs, hub>>

\* lines 124-127: broadcast_tx.send, its result dropped, then Ok(())
Broadcast(t) ==
  /\ pc[t] = "broadcast"
  /\ SendReady(chan.items, Cursors(ws))
  /\ hub' = Append(hub, req[t].id)
  /\ chan' = send(chan, Cardinality(Receivers(ws)), req[t].id)
  /\ obs' = [obs EXCEPT ![t] = Ran(@, "broadcast", TRUE)]
  /\ pc' = [pc EXCEPT ![t] = StageAfter("broadcast")]
  /\ UNCHANGED <<cfgVars, decoderVars, ws, helperVars, now, smb_cache, req,
                 det, received, readerVars>>
  /\ UNCHANGED <<logfile, db, history, pushed, stats, unique_macs,
                 stats_lock, macs_lock>>

\* ------------------------------------------------------------- readers
\* get_stats line 190: stats.read().await
GetStatsBegin ==
  /\ rd_pc = "idle"
  /\ CanRead(stats_lock)
  /\ stats_lock' = [stats_lock EXCEPT !.readers = @ + 1]
  /\ rd_pc' = "reading"
  /\ UNCHANGED <<cfgVars, decoderVars, wsVars, helperVars, now, smb_cache, pc, req, det, obs, received,
                 hist_out>>
  /\ UNCHANGED <<logfile, db, history, pushed, stats, unique_macs,
                 macs_lock, hub>>

\* get_stats line 190: clone under the guard, then the guard is dropped
GetStatsEnd ==
  /\ rd_pc = "reading"
  /\ stats_lock' = [stats_lock EXCEPT !.readers = @ - 1]
  /\ rd_pc' = "idle"
  /\ UNCHANGED <<cfgVars, decoderVars, wsVars, helperVars, now, smb_cache, pc, req, det, obs, received,
                 hist_out>>
  /\ UNCHANGED <<logfile, db, history, pushed, stats, unique_macs,
                 macs_lock, hub>>

\* Iterator::rev and Iterator::take
Reverse(s) == [i \in 1..Len(s) |-> s[Len(s) + 1 - i]]
Take(s, n) == SubSeq(s, 1, Min(n, Len(s)))

\* get_history without the rev
get_history_oldestFirst(ring, limit) == Take(ring, limit)

\* get_history lines 161-162, on a ring held oldest first
get_history(ring, limit) == Take(Reverse(ring), limit)

ASCII_UPPER == "ABCDEFGHIJKLMNOPQRSTUVWXYZ"
ASCII_LOWER == "abcdefghijklmnopqrstuvwxyz"

\* u8::to_ascii_lowercase on the character c (a string of length 1)
to_ascii_lowercase(c) ==
  LET hits == {k \in 1..26 : SubSeq(ASCII_UPPER, k, k) = c}
  IN IF hits = {} THEN c
     ELSE LET k == CHOOSE k \in hits : TRUE IN SubSeq(ASCII_LOWER, k, k)

\* a comparison that tells the cases apart
eq_ignore_ascii_case_exact(a, b) == a = b

\* str::eq_ignore_ascii_case
eq_ignore_ascii_case(a, b) ==
  /\ Len(a) = Len(b)
  /\ \A i \in 1..Len(a) :
       to_ascii_lowercase(SubSeq(a, i, i)) = to_ascii_lowercase(SubSeq(b, i, i))

\* search_history line 175
mac_match(r, mac) ==
  IF IsSome(mac) THEN Contains(r.mac_address, Unwrap(mac)) ELSE TRUE

\* a vendor predicate that lets an entry without vendor class through
vendor_match_absentPasses(r, vendor) ==
  IF IsSome(vendor)
    THEN IF IsSome(r.vendor_class)
           THEN Contains(Unwrap(r.vendor_class), Unwrap(vendor))
           ELSE TRUE
    ELSE TRUE

\* search_history lines 176-178
vendor_match(r, vendor) ==
  IF IsSome(vendor)
    THEN IF IsSome(r.vendor_class)
           THEN Contains(Unwrap(r.vendor_class), Unwrap(vendor))
           ELSE FALSE
    ELSE TRUE

\* search_history line 179
type_match(r, msg_type) ==
  IF IsSome(msg_type)
    THEN eq_ignore_ascii_case(r.message_type, Unwrap(msg_type))
    ELSE TRUE

\* search_history lines 172-185: the filter over history.iter(), oldest
\* entry first
search_history(ring, mac, vendor, msg_type) ==
  LET keep(r) == mac_match(r, mac) /\ vendor_match(r, vendor)
                   /\ type_match(r, msg_type)
  IN SelectSeq(ring, keep)

\* search_history: the read lock of history is taken, used and dropped
\* without an await in between
SearchHistoryCall(mac, vendor, msg_type) ==
  /\ search_out' = [mac |-> mac, vendor |-> vendor, msg_type |-> msg_type,
                    entries |-> search_history(history, mac, vendor,
                                               msg_type)]
  /\ UNCHANGED <<cfgVars, decoderVars, wsVars, build, version, cache_call,
                 guardVars,
                 now, smb_cache, pc, req, det, obs, received, sinkVars,
                 readerVars>>

\* get_history lines 160-163: the read lock of history is taken, used and
\* dropped without an await in between
GetHistoryCall(limit) ==
  /\ hist_out' = [limit |-> limit, at |-> Len(pushed),
                  entries |-> get_history(history, limit)]
  /\ UNCHANGED <<cfgVars, decoderVars, wsVars, helperVars, now, smb_cache, pc, req, det, obs, received,
                 sinkVars, rd_pc>>

\* ------------------------------------------------ handle_websocket
Ids(ring) == [i \in 1..Len(ring) |-> ring[i].id]

\* the priming burst with the whole ring
BurstOf_wholeRing(ring) == get_history(ring, HISTORY_BUFFER_SIZE)

\* line 102: state.get_history(50)
BurstOf(ring) == get_history(ring, WS_INITIAL_HISTORY)

\* line 130: while let Ok(request) = rx.recv().await; the position of the
\* connection after recv has returned
LiveAfter(kind) == IF kind = "Ok" THEN "send" ELSE "closed"

wsFrame ==
  <<cfgVars, decoderVars, helperVars, now, smb_cache, pc, req, det, obs,
    received, sinkVars, readerVars, chan>>

\* a receiver that starts one value after the tail
subscribe_skipNext(items) == Len(items) + 1

\* broadcast::Sender::subscribe: the receiver's cursor is the tail of the
\* channel, so the next value sent is the first it receives
subscribe(items) == Len(items)

\* line 97: broadcast_tx.subscribe(); start keeps the length of the channel
\* at the call
WsSubscribe(s) ==
  /\ ws[s].pc = "none"
  /\ ws' = [ws EXCEPT ![s].pc = "prime", ![s].start = Len(chan.items),
                       ![s].next = subscribe(chan.items)]
  /\ UNCHANGED wsFrame

\* line 102: the history read; ring keeps what the ring held at the read
WsGetHistory(s) ==
  /\ ws[s].pc = "prime"
  /\ ws' = [ws EXCEPT ![s].pc = "burst",
                       ![s].ring = Ids(history),
                       ![s].burst = Ids(BurstOf(history))]
  /\ UNCHANGED wsFrame

\* lines 103-116: one entry of the burst is sent; a failed send returns
WsSendBurst(s, ok) ==
  /\ ws[s].pc = "burst"
  /\ ws[s].burst # <<>>
  /\ ws' = IF ok
             THEN [ws EXCEPT ![s].sent = Append(@, <<"burst", Head(ws[s].burst)>>),
                             ![s].burst = Tail(@)]
             ELSE [ws EXCEPT ![s] = Closed(@)]
  /\ UNCHANGED wsFrame

\* lines 118-144: the burst is through, the two tasks are spawned
WsSpawn(s) ==
  /\ ws[s].pc = "burst"
  /\ ws[s].burst = <<>>
  /\ ws' = [ws EXCEPT ![s].pc = "live"]
  /\ UNCHANGED wsFrame

\* line 130: rx.recv().await returns a value or the lag signal
WsRecv(s) ==
  /\ ws[s].pc = "live"
  /\ LET r == recv(chan.items, ws[s].next)
         w == [ws[s] EXCEPT
                 !.next = r.next,
                 !.item = IF r.kind = "Ok" THEN r.value ELSE 0,
                 !.lagged = IF r.kind = "Lagged" THEN @ + 1 ELSE @,
                 !.pc = LiveAfter(r.kind)]
     IN /\ r.kind # "Pending"
        /\ ws' = [ws EXCEPT ![s] = IF w.pc = "closed" THEN Closed(w) ELSE w]
  /\ UNCHANGED wsFrame

\* lines 131-142: the value is sent to the client; a failed send ends the
\* send task
WsSendLive(s, ok) ==
  /\ ws[s].pc = "send"
  /\ ws' = IF ok
             THEN [ws EXCEPT ![s].sent = Append(@, <<"live", ws[s].item>>),
                             ![s].item = 0, ![s].pc = "live"]
             ELSE [ws EXCEPT ![s] = Closed(@)]
  /\ UNCHANGED wsFrame

\* lines 119-126 and 151-153: the peer closes, the send task is aborted
WsPeerClose(s) ==
  /\ ws[s].pc \in {"live", "send"}
  /\ ws' = [ws EXCEPT ![s] = Closed(@)]
  /\ UNCHANGED wsFrame

\* ------------------------------------------------------------ locking
\* what a call does to the locks, in program order
Acquire(lock, mode) == <<"acquire", lock, mode>>
Drop(lock) == <<"drop", lock, "">>
Awaits(what) == <<"await", what, "">>

\* probe_smb_cached with the read guard alive until the function returns
probe_smb_cached_guards_kept ==
  <<Acquire("smb_cache", "read"), Awaits("probe_smb"),
    Acquire("smb_cache", "write"), Drop("smb_cache"), Drop("smb_cache")>>

\* probe_smb_cached on a miss: the read guard lives in the block of lines
\* 220-234, the probe is awaited at 239, the write guard is taken at 249
\* and dropped when the function returns
probe_smb_cached_guards ==
  <<Acquire("smb_cache", "read"), Drop("smb_cache"), Awaits("probe_smb"),
    Acquire("smb_cache", "write"), Drop("smb_cache")>>

\* probe_smb_cached on a hit: the return at line 226 drops the read guard
probe_smb_cached_hit_guards ==
  <<Acquire("smb_cache", "read"), Drop("smb_cache")>>

\* RequestLogger::log lines 23-29: the mutex guard lives in the function
log_guards == <<Acquire("log_file", "write"), Drop("log_file")>>

\* update_statistics lines 130-157: stats, then unique_macs; the guards
\* are dropped in the reverse order of their declaration
update_statistics_guards ==
  <<Acquire("stats", "write"), Acquire("unique_macs", "write"),
    Drop("unique_macs"), Drop("stats")>>

\* process_request lines 105-125: the log, the insert, the ring in its own
\* block, the statistics, the send
process_request_guards ==
  log_guards \o <<Awaits("insert_request")>>
    \o <<Acquire("history", "write"), Drop("history")>>
    \o update_statistics_guards \o <<Awaits("send")>>

\* the calls that take locks
CallKinds ==
  {"handle_request", "handle_request_hit", "handle_request_plain",
   "get_history", "search_history", "handle_websocket", "get_stats",
   "cache_stats", "clear_cache"}

LockProgram(kind) ==
  CASE kind = "handle_request" ->
         probe_smb_cached_guards \o process_request_guards
    [] kind = "handle_request_hit" ->
         probe_smb_cached_hit_guards \o process_request_guards
    [] kind = "handle_request_plain" -> process_request_guards
    [] kind \in {"get_history", "search_history", "handle_websocket"} ->
         <<Acquire("history", "read"), Drop("history")>>
    [] kind = "get_stats" -> <<Acquire("stats", "read"), Drop("stats")>>
    [] kind = "cache_stats" ->
         <<Acquire("smb_cache", "read"), Drop("smb_cache")>>
    [] kind = "clear_cache" ->
         <<Acquire("smb_cache", "write"), Drop("smb_cache")>>
    [] OTHER -> <<>>

AtEnd(c) == c.at = 0 \/ c.at > Len(LockProgram(c.kind))
Op(c) == IF AtEnd(c) THEN <<"return", "", "">> ELSE LockProgram(c.kind)[c.at]

\* the positions of a caller in the queue of a lock
QueuedAt(g, p) == {i \in 1..Len(g.queue) : g.queue[i].caller = p}
Without(queue, p) ==
  LET other(w) == w.caller # p
  IN SelectSeq(queue, other)

\* std::sync::Mutex hands the lock to any waiting thread
MutexGrantable(g, p) == QueuedAt(g, p) # {} /\ g.writer = 0

\* tokio::sync::RwLock is fair: waiters are served in the order of their
\* requests, a writer once no guard is alive, a reader once no write guard
\* is
RwLockGrantable(g, p, mode) ==
  /\ g.queue # <<>>
  /\ Head(g.queue).caller = p
  /\ g.writer = 0
  /\ mode = "write" => g.readers = {}

Grantable(lock, p, mode) ==
  IF lock = "log_file" THEN MutexGrantable(guards[lock], p)
                       ELSE RwLockGrantable(guards[lock], p, mode)

lockFrame ==
  <<cfgVars, decoderVars, wsVars, build, version, cache_call, search_out,
    now, smb_cache, pc, req, det, obs, received, sinkVars, readerVars>>

\* a call begins
Call(p, kind) ==
  /\ callers[p].kind = "none"
  /\ callers' = [callers EXCEPT ![p] = [kind |-> kind, at |-> 1,
                                        waiting |-> FALSE]]
  /\ UNCHANGED <<guards, lockFrame>>

\* .read().await, .write().await or .lock() is called
RequestGuard(p) ==
  /\ callers[p].kind # "none"
  /\ ~callers[p].waiting
  /\ Op(callers[p])[1] = "acquire"
  /\ guards' = [guards EXCEPT ![Op(callers[p])[2]].queue =
                  Append(@, [caller |-> p, mode |-> Op(callers[p])[3]])]
  /\ callers' = [callers EXCEPT ![p].waiting = TRUE]
  /\ UNCHANGED lockFrame

\* the guard is handed out
GrantGuard(p) ==
  /\ callers[p].waiting
  /\ \E op \in {Op(callers[p])} :
       /\ Grantable(op[2], p, op[3])
       /\ guards' = [guards EXCEPT ![op[2]] =
                      [writer |-> IF op[3] = "write" THEN p ELSE @.writer,
                       readers |-> IF op[3] = "read" THEN @.readers \cup {p}
                                                    ELSE @.readers,
                       queue |-> Without(@.queue, p)]]
  /\ callers' = [callers EXCEPT ![p].waiting = FALSE, ![p].at = @ + 1]
  /\ UNCHANGED lockFrame

\* a guard goes out of scope
DropGuard(p) ==
  /\ callers[p].kind # "none"
  /\ \E op \in {Op(callers[p])} :
       /\ op[1] = "drop"
       /\ guards' = [guards EXCEPT ![op[2]] =
                      [writer |-> IF @.writer = p THEN 0 ELSE @.writer,
                       readers |-> @.readers \ {p},
                       queue |-> @.queue]]
  /\ callers' = [callers EXCEPT ![p].at = @ + 1]
  /\ UNCHANGED lockFrame

\* an await that takes no lock completes
AwaitDone(p) ==
  /\ callers[p].kind # "none"
  /\ Op(callers[p])[1] = "await"
  /\ callers' = [callers EXCEPT ![p].at = @ + 1]
  /\ UNCHANGED <<guards, lockFrame>>

\* the call returns
CallReturn(p) ==
  /\ callers[p].kind # "none"
  /\ AtEnd(callers[p])
  /\ callers' = [callers EXCEPT ![p] = NoCaller]
  /\ UNCHANGED <<guards, lockFrame>>

\* ------------------------------------------------------- specifications
\* Spec: MaxTasks processor tasks run concurrently, one datagram each, next
\* to a get_stats reader
Init ==
  /\ config = [enable_smb_probing |-> TRUE, smb_cache_ttl_secs |-> 1]
  /\ mac_mappings = <<>>
  /\ table = SCHEMA_COLUMNS
  /\ InitCommon

Next ==
  \/ Tick
  \/ \E t \in Tasks, d \in PipelineDatagrams : Receive(t, d)
  \/ \E t \in Tasks : DetectStart(t)
  \/ \E t \in Tasks, ping \in PingOutcomes : PingHost(t, ping)
  \/ \E t \in Tasks : CacheLookup(t)
  \/ \E t \in Tasks, outcome \in PipelineProbeOutcomes : ProbeSmb(t, outcome)
  \/ \E t \in Tasks : CacheInsert(t)
  \/ \E t \in Tasks : Enrich(t)
  \/ \E t \in Tasks, ok \in BOOLEAN : LogRequest(t, ok)
  \/ \E t \in Tasks, ok \in BOOLEAN : InsertRequest(t, ok)
  \/ \E t \in Tasks : HistoryPush(t)
  \/ \E t \in Tasks : StatsAcquire(t)
  \/ \E t \in Tasks : MacsAcquire(t)
  \/ \E t \in Tasks : StatsCount(t)
  \/ \E t \in Tasks : StatsFinish(t)
  \/ \E t \in Tasks : Broadcast(t)
  \/ GetStatsBegin
  \/ GetStatsEnd

Spec == Init /\ [][Next]_vars

\* SpecSerial: datagrams arrive one after the other, each processed by a
\* task that ends before the next arrives, next to a get_history reader
HistoryLimits == 0..(HISTORY_BUFFER_SIZE + 1)

NextSerial ==
  \/ Tick
  \/ \E d \in PipelineDatagrams : Receive(1, d)
  \/ DetectStart(1)
  \/ \E ping \in PingOutcomes : PingHost(1, ping)
  \/ CacheLookup(1)
  \/ \E outcome \in PipelineProbeOutcomes : ProbeSmb(1, outcome)
  \/ CacheInsert(1)
  \/ Enrich(1)
  \/ LogRequest(1, TRUE)
  \/ InsertRequest(1, TRUE)
  \/ HistoryPush(1)
  \/ StatsAcquire(1)
  \/ MacsAcquire(1)
  \/ StatsCount(1)
  \/ StatsFinish(1)
  \/ Broadcast(1)
  \/ Retire(1)
  \/ \E limit \in HistoryLimits : GetHistoryCall(limit)

SpecSerial == Init /\ [][NextSerial]_vars

\* SpecDetect: HybridDetector::detect called directly, one call at a time,
\* over every configuration and a wider range of arguments
DetectIps == {IP_UNSPECIFIED, IP_A}
DetectVendors == {None, Some(Vendor_MSFT50), Some(Vendor_XMSFT),
                  Some(Vendor_Android), Some(Vendor_msft), Some(Vendor_MSF),
                  Some(Vendor_MSxFT)}
DetectClients == {<<MAC_1, FP_WIN11>>, <<MAC_2, FP_UNKNOWN>>}
\* the fingerprints the baseline lookup is driven with, for a client with
\* and a client without an entry in the MAC overrides
DetectFingerprints == {FP_WIN11, FP_WIN10, FP_WIN11_APPENDED,
                       FP_WIN10_APPENDED, FP_WIN10_SHORTENED,
                       FP_WIN11_REORDERED, FP_XBOX_SPACED, FP_UNKNOWN, ""}
LookupClients == {MAC_1, MAC_2} \X DetectFingerprints
LookupVendors == {None, Some(Vendor_Android)}

InitDetect ==
  /\ config \in [enable_smb_probing : BOOLEAN, smb_cache_ttl_secs : TtlChoices]
  /\ mac_mappings \in MappingChoices
  /\ table = SCHEMA_COLUMNS
  /\ InitCommon

NextDetect ==
  \/ Tick
  \/ \E ip \in DetectIps, c \in DetectClients, vc \in DetectVendors :
       DetectCall(1, ip, c[1], c[2], vc)
  \/ \E ip \in DetectIps, c \in LookupClients, vc \in LookupVendors :
       DetectCall(1, ip, c[1], c[2], vc)
  \/ DetectStart(1)
  \/ \E ping \in PingOutcomes : PingHost(1, ping)
  \/ CacheLookup(1)
  \/ \E outcome \in ProbeOutcomes : ProbeSmb(1, outcome)
  \/ CacheInsert(1)
  \/ DetectReturn(1)

SpecDetect == InitDetect /\ [][NextDetect]_vars

\* SpecDecode: one datagram goes through DhcpPacket::parse and
\* DhcpRequest::from_packet
\* the fixed BOOTP header: op, htype, hlen, hops, xid 0x1234abcd, ciaddr
\* 192.0.2.10, chaddr aa:bb:cc:dd:ee:01 followed by ten more bytes
CHADDR == <<170, 187, 204, 221, 238, 1, 2, 3, 4, 5, 6, 7, 8, 9, 10, 11>>
BootpHeader(hlen) ==
  [i \in 1..236 |-> CASE i \in {1, 2} -> 1
                      [] i = 3 -> hlen
                      [] i \in 5..8 -> <<18, 52, 171, 205>>[i - 4]
                      [] i \in 13..16 -> <<192, 0, 2, 10>>[i - 12]
                      [] i \in 29..44 -> CHADDR[i - 28]
                      [] OTHER -> 0]

\* the encoding of a list of options, bare and with pads around each
RECURSIVE WireOf(_)
WireOf(options) ==
  IF options = <<>> THEN <<>>
  ELSE <<options[1].code, Len(options[1].data)>> \o options[1].data
         \o WireOf(Tail(options))
RECURSIVE PaddedWireOf(_)
PaddedWireOf(options) ==
  IF options = <<>> THEN <<0>>
  ELSE <<0, options[1].code, Len(options[1].data)>> \o options[1].data
         \o <<0, 0>> \o PaddedWireOf(Tail(options))

\* datagrams too short for the fixed header
ShortDatagrams == {SubSeq(BootpHeader(6), 1, n) : n \in {0, 1, 44, 235}}
\* what stands where the cookie should
CookieAreas == {<<>>, <<99>>, <<99, 130, 83>>, <<99, 130, 83, 98>>,
                <<0, 0, 0, 0>>, <<99, 130, 83, 98, 255>>,
                <<130, 99, 83, 99, 53, 1, 3>>}
\* every options area of up to MaxOptionBytes bytes over pad, end, small
\* lengths and codes
OptionBytes == {0, 1, 3, 53, 255}
OptionAreas == UNION {[1..n -> OptionBytes] : n \in 0..MaxOptionBytes}
\* complete options followed by an option cut short: the code alone, a
\* length with no or too little data, a length of 255
CompleteOptionLists ==
  {<<>>,
   <<DhcpOption(53, <<3>>)>>,
   <<DhcpOption(53, <<1>>), DhcpOption(55, <<1, 3, 6>>)>>,
   <<DhcpOption(12, <<>>), DhcpOption(55, <<1, 3>>), DhcpOption(55, <<6>>)>>}
TruncatedTails == {<<60>>, <<60, 5>>, <<60, 5, 77, 83>>, <<60, 1>>,
                   <<55, 255>>, <<55, 255, 1, 3>>}
TruncatedAreas ==
  {WireOf(o) \o tail : o \in CompleteOptionLists, tail \in TruncatedTails}
    \cup {PaddedWireOf(o) \o tail :
            o \in CompleteOptionLists, tail \in TruncatedTails}
\* a Windows 11 REQUEST: Option 53 = 3, the Option 55 of the DB key, Option
\* 60 = "MSFT 5.0", end
Win11Area ==
  WireOf(<<DhcpOption(53, <<3>>),
           DhcpOption(55, <<1, 3, 6, 15, 31, 33, 43, 44, 46, 47, 121, 249,
                            252, 12>>),
           DhcpOption(60, <<77, 83, 70, 84, 32, 53, 46, 48>>)>>) \o <<255>>
HlenValues == 0..255
\* complete options, an End, and bytes after it
AfterEnd == {<<>>, <<255>>, <<53, 1, 5>>, <<0, 12, 0>>, <<12, 9>>}
EndedAreas ==
  {WireOf(o) \o <<255>> \o rest : o \in CompleteOptionLists, rest \in AfterEnd}
    \cup {PaddedWireOf(o) \o <<255>> \o rest :
            o \in CompleteOptionLists, rest \in AfterEnd}
\* Option 53 with every value of its first byte, with no byte, with two
\* bytes, twice, and after another option
MessageTypeAreas ==
  {<<53, 1, v, 255>> : v \in 0..255}
    \cup {<<53, 0, 255>>, <<53, 2, 3, 1, 255>>, <<53, 2, 2, 1, 255>>,
          <<53, 1, 3, 53, 1, 1, 255>>, <<53, 0, 53, 1, 1, 255>>,
          <<12, 1, 1, 53, 1, 8, 255>>, <<54, 1, 1, 255>>}

WireDatagrams ==
  ShortDatagrams
    \cup {BootpHeader(6) \o area : area \in CookieAreas}
    \cup {BootpHeader(6) \o MAGIC_COOKIE \o area :
            area \in OptionAreas \cup TruncatedAreas \cup EndedAreas
                       \cup MessageTypeAreas \cup {Win11Area}}
    \cup {BootpHeader(hlen) \o MAGIC_COOKIE \o <<255>> : hlen \in HlenValues}

NextDecode ==
  \/ \E bytes \in WireDatagrams : RecvFrom(1, bytes)
  \/ ParsePacket(1)
  \/ \E ip \in {IP_A} : BuildRequest(1, ip)

SpecDecode == Init /\ [][NextDecode]_vars

\* datagrams that arrive in a run of SpecWire
MaxWire == 2

\* SpecWire: datagrams go from recv_from through the whole handler, in
\* MaxTasks concurrent tasks next to a get_stats reader; the store is new
\* or was created with every column of the insert
TableChoices == {SCHEMA_COLUMNS, SCHEMA_COLUMNS \cup INSERT_COLUMNS}
\* a datagram too short for the header, one without the cookie, a Windows
\* 11 REQUEST that qualifies for the probe and a bare DISCOVER
WireInputs ==
  {SubSeq(BootpHeader(6), 1, 235),
   BootpHeader(6) \o <<99, 130, 83, 98, 255>>,
   BootpHeader(6) \o MAGIC_COOKIE \o Win11Area,
   BootpHeader(6) \o MAGIC_COOKIE \o <<53, 1, 1, 255>>}

InitWire ==
  /\ config = [enable_smb_probing |-> TRUE, smb_cache_ttl_secs |-> 1]
  /\ mac_mappings = <<>>
  /\ table \in TableChoices
  /\ InitCommon

\* the steps of the task in slot t that need nothing but the scheduler and
\* the return of an external call
TaskStep(t) ==
  \/ ParsePacket(t)
  \/ \E ip \in {IP_A} : BuildRequest(t, ip)
  \/ DetectStart(t)
  \/ \E ping \in PingOutcomes : PingHost(t, ping)
  \/ CacheLookup(t)
  \/ \E outcome \in PipelineProbeOutcomes : ProbeSmb(t, outcome)
  \/ CacheInsert(t)
  \/ Enrich(t)
  \/ \E ok \in BOOLEAN : LogRequest(t, ok)
  \/ \E ok \in BOOLEAN : InsertRequest(t, ok)
  \/ HistoryPush(t)
  \/ MacsAcquire(t)
  \/ StatsCount(t)
  \/ StatsFinish(t)
  \/ Broadcast(t)
  \/ HandlerReturn(t)

NextWire ==
  \/ \E t \in Tasks, bytes \in WireInputs :
       received < MaxWire /\ RecvFrom(t, bytes)
  \/ \E t \in Tasks : TaskStep(t)
  \/ \E t \in Tasks : StatsAcquire(t)
  \/ GetStatsBegin
  \/ GetStatsEnd

\* the runtime runs every spawned task and every external call returns or
\* times out (a step of the handler that is ready is taken), the RwLock
\* queues its waiters so that a waiting writer gets the guard, and a
\* get_stats reader releases its guard
FairWire ==
  /\ \A t \in Tasks :
       /\ WF_vars(ParsePacket(t))
       /\ WF_vars(\E ip \in {IP_A} : BuildRequest(t, ip))
       /\ WF_vars(DetectStart(t))
       /\ WF_vars(\E ping \in PingOutcomes : PingHost(t, ping))
       /\ WF_vars(CacheLookup(t))
       /\ WF_vars(\E outcome \in PipelineProbeOutcomes : ProbeSmb(t, outcome))
       /\ WF_vars(CacheInsert(t))
       /\ WF_vars(Enrich(t))
       /\ WF_vars(\E ok \in BOOLEAN : LogRequest(t, ok))
       /\ WF_vars(\E ok \in BOOLEAN : InsertRequest(t, ok))
       /\ WF_vars(HistoryPush(t))
       /\ SF_vars(StatsAcquire(t))
       /\ WF_vars(MacsAcquire(t))
       /\ WF_vars(StatsCount(t))
       /\ WF_vars(StatsFinish(t))
       /\ WF_vars(Broadcast(t))
       /\ WF_vars(HandlerReturn(t))
  /\ WF_vars(GetStatsEnd)

SpecWire == InitWire /\ [][NextWire]_vars

\* SpecWireFair: the handlers of SpecWire on a new store under FairWire,
\* each datagram the REQUEST that qualifies for the probe or one without
\* the cookie
FairInputs ==
  {BootpHeader(6) \o <<99, 130, 83, 98, 255>>,
   BootpHeader(6) \o MAGIC_COOKIE \o Win11Area}

NextWireFair ==
  \/ \E t \in Tasks, bytes \in FairInputs :
       received < MaxWire /\ RecvFrom(t, bytes)
  \/ \E t \in Tasks : TaskStep(t)
  \/ \E t \in Tasks : StatsAcquire(t)
  \/ GetStatsBegin
  \/ GetStatsEnd

SpecWireFair == Init /\ [][NextWireFair]_vars /\ FairWire

\* detect calls, and clear_cache and cache_stats calls, in a run of
\* SpecCache
MaxDetects == 2
MaxAdmin == 2

\* SpecCache: MaxTasks concurrent detect calls of clients that pass the
\* gate and whose host answers the ping, from two addresses, next to
\* clear_cache and cache_stats calls and the clock
CacheIps == {IP_A, IP_B}

InitCache ==
  /\ config = [enable_smb_probing |-> TRUE, smb_cache_ttl_secs |-> 1]
  /\ mac_mappings = <<>>
  /\ table = SCHEMA_COLUMNS
  /\ InitCommon

NextCache ==
  \/ Tick
  \/ \E t \in Tasks, ip \in CacheIps :
       /\ received < MaxDetects
       /\ DetectCall(t, ip, MAC_2, FP_UNKNOWN, Some(Vendor_MSFT50))
  \/ \E t \in Tasks : DetectStart(t)
  \/ \E t \in Tasks : PingHost(t, "reachable")
  \/ \E t \in Tasks : CacheLookup(t)
  \/ \E t \in Tasks, outcome \in PipelineProbeOutcomes : ProbeSmb(t, outcome)
  \/ \E t \in Tasks : CacheInsert(t)
  \/ \E t \in Tasks : DetectReturn(t)
  \/ cache_call.n < MaxAdmin /\ ClearCache
  \/ cache_call.n < MaxAdmin /\ CacheStats

SpecCache == InitCache /\ [][NextCache]_vars

\* requests processed in a run of SpecSearch
MaxSearched == 2

\* SpecSearch: requests of three clients go through process_request, with
\* probing switched off, next to search_history calls
SearchDatagrams ==
  {Datagram(IP_A, MAC_1, "REQUEST", FP_WIN11, Some(Vendor_MSFT50)),
   Datagram(IP_A, MAC_2, "DISCOVER", FP_UNKNOWN, None),
   Datagram(IP_B, MAC_2, "REQUEST", FP_UNKNOWN, Some(Vendor_Android))}
SearchMacs == {None, Some("ee:01"), Some("EE:01")}
SearchVendors == {None, Some(<<>>), Some(Str_MSFT)}
SearchTypes == {None, Some("request"), Some("REQ")}

InitSearch ==
  /\ config = [enable_smb_probing |-> FALSE, smb_cache_ttl_secs |-> 1]
  /\ mac_mappings = <<>>
  /\ table = SCHEMA_COLUMNS
  /\ InitCommon

NextSearch ==
  \/ \E d \in SearchDatagrams : received < MaxSearched /\ Receive(1, d)
  \/ DetectStart(1)
  \/ Enrich(1)
  \/ LogRequest(1, TRUE)
  \/ InsertRequest(1, TRUE)
  \/ HistoryPush(1)
  \/ StatsAcquire(1)
  \/ MacsAcquire(1)
  \/ StatsCount(1)
  \/ StatsFinish(1)
  \/ Broadcast(1)
  \/ Retire(1)
  \/ \E mac \in SearchMacs, vendor \in SearchVendors, msg_type \in SearchTypes :
       SearchHistoryCall(mac, vendor, msg_type)

SpecSearch == InitSearch /\ [][NextSearch]_vars

\* SpecHub: WebSocket connections next to the processor; datagrams arrive
\* one after the other from a client that does not qualify for the probe
HubDatagrams ==
  {Datagram(IP_UNSPECIFIED, MAC_2, "DISCOVER", FP_UNKNOWN, None)}

NextHub ==
  \/ \E d \in HubDatagrams : Receive(1, d)
  \/ DetectStart(1)
  \/ Enrich(1)
  \/ LogRequest(1, TRUE)
  \/ InsertRequest(1, TRUE)
  \/ HistoryPush(1)
  \/ StatsAcquire(1)
  \/ MacsAcquire(1)
  \/ StatsCount(1)
  \/ StatsFinish(1)
  \/ Broadcast(1)
  \/ Retire(1)
  \/ \E s \in Subscribers : WsSubscribe(s)
  \/ \E s \in Subscribers : WsGetHistory(s)
  \/ \E s \in Subscribers, ok \in BOOLEAN : WsSendBurst(s, ok)
  \/ \E s \in Subscribers : WsSpawn(s)
  \/ \E s \in Subscribers : WsRecv(s)
  \/ \E s \in Subscribers, ok \in BOOLEAN : WsSendLive(s, ok)
  \/ \E s \in Subscribers : WsPeerClose(s)

SpecHub == Init /\ [][NextHub]_vars

\* SpecPrime: one WebSocket connection next to MaxTasks concurrent
\* processor tasks, one datagram each (main.rs spawns one task per
\* datagram)
NextPrime ==
  \/ \E t \in Tasks, d \in HubDatagrams : Receive(t, d)
  \/ \E t \in Tasks : DetectStart(t)
  \/ \E t \in Tasks : Enrich(t)
  \/ \E t \in Tasks : LogRequest(t, TRUE)
  \/ \E t \in Tasks : InsertRequest(t, TRUE)
  \/ \E t \in Tasks : HistoryPush(t)
  \/ \E t \in Tasks : StatsAcquire(t)
  \/ \E t \in Tasks : MacsAcquire(t)
  \/ \E t \in Tasks : StatsCount(t)
  \/ \E t \in Tasks : StatsFinish(t)
  \/ \E t \in Tasks : Broadcast(t)
  \/ WsSubscribe(1)
  \/ WsGetHistory(1)
  \/ \E ok \in BOOLEAN : WsSendBurst(1, ok)
  \/ WsSpawn(1)
  \/ WsRecv(1)
  \/ \E ok \in BOOLEAN : WsSendLive(1, ok)
  \/ WsPeerClose(1)

SpecPrime == Init /\ [][NextPrime]_vars

\* SpecGuards: MaxCallers concurrent calls of any kind, each taking and
\* dropping its locks in program order
NextGuards ==
  \/ \E p \in Callers, kind \in CallKinds : Call(p, kind)
  \/ \E p \in Callers : RequestGuard(p)
  \/ \E p \in Callers : GrantGuard(p)
  \/ \E p \in Callers : DropGuard(p)
  \/ \E p \in Callers : AwaitDone(p)
  \/ \E p \in Callers : CallReturn(p)

SpecGuards == Init /\ [][NextGuards]_vars

\* SpecBuild: build_to_windows_version called on its own, as its unit test
\* does
\* for every arm the builds around its first and around its last build and
\* its first ArmSample builds; 0 and a build far above every arm
ArmSample == 40
ArmBuilds ==
  UNION {((BUILD_ARMS[i][1] - 1)..Min(BUILD_ARMS[i][2] + 1,
                                       BUILD_ARMS[i][1] + ArmSample))
           \cup ((BUILD_ARMS[i][2] - 1)..(BUILD_ARMS[i][2] + 1)) :
         i \in 1..Len(BUILD_ARMS)}
Builds == ArmBuilds \cup {0, 2147483647}

\* smb.rs 17-49 and 270-274: one call
BuildToWindowsVersion(b) ==
  /\ build' = b
  /\ version' = build_to_windows_version(b)
  /\ UNCHANGED <<cfgVars, decoderVars, wsVars, now, smb_cache, pc, req, det,
                 obs, received, sinkVars, readerVars, cache_call, search_out,
                 guardVars>>

NextBuild == \E b \in Builds : BuildToWindowsVersion(b)

SpecBuild == Init /\ [][NextBuild]_vars

\* ------------------------------------------------------------- properties
Range(s) == {s[i] : i \in 1..Len(s)}
IsPrefix(s, w) == Len(s) <= Len(w) /\ SubSeq(w, 1, Len(s)) = s
Occurrences(s, x) == Cardinality({i \in 1..Len(s) : s[i] = x})
SinkOrder == <<"log", "db", "history", "stats", "broadcast">>

\* C1: within one process_request call the sinks run in the order log
\* append, DB insert, ring push, statistics update, publish; a request
\* that is in the hub is in the ring's push record and counted in
\* total_requests.
C1_SinkOrder ==
  /\ \A t \in Tasks :
       /\ IsPrefix(obs[t].sinks, SinkOrder)
       /\ req[t].id \in Range(hub) =>
            /\ req[t].id \in Range(pushed)
            /\ "history" \in Range(obs[t].sinks)
            /\ "stats" \in Range(obs[t].sinks)
  /\ Len(hub) <= stats.total_requests
  /\ Len(hub) <= Len(pushed)

\* C1 witness: one request is published while another task is still
\* between its DB insert and its statistics update
C1_Witness ==
  \E t, u \in Tasks :
    /\ req[t].id \in Range(hub)
    /\ obs[t].sinks = SinkOrder
    /\ pc[u] \in {"history", "stats", "stats_macs", "stats_count"}

\* C2: a failed log append or DB insert (or both) never ends the call:
\* the call never returns an error, and a call that has returned has
\* pushed, counted and published its request.
C2_PersistenceFailuresNotFatal ==
  \A t \in Tasks :
    /\ pc[t] # "failed"
    /\ pc[t] = "done" =>
         /\ obs[t].sinks = SinkOrder
         /\ Occurrences(pushed, req[t].id) = 1
         /\ Occurrences(hub, req[t].id) = 1
         /\ stats.total_requests >= 1
         /\ req[t].mac_address \in unique_macs

\* C2 witness: a call has returned after both its log append and its DB
\* insert failed
C2_Witness ==
  \E t \in Tasks :
    /\ pc[t] = "done"
    /\ obs[t].errors = {"log", "db"}
    /\ req[t].id \in Range(hub)

\* C3: while a get_stats reader holds the read guard of stats, the MAC
\* counter equals the size of the unique-MAC set.
C3_UniqueMacsInStep ==
  rd_pc = "reading" => stats.unique_macs = Cardinality(unique_macs)

\* C3 witness: a reader holds the guard after a MAC was counted, while
\* another processor task waits for the write guard
C3_Witness ==
  /\ rd_pc = "reading"
  /\ stats.unique_macs = 1
  /\ \E t \in Tasks : pc[t] = "stats"

\* the counter and the set do differ inside the critical section
C3_TransientExists ==
  \E t \in Tasks :
    /\ pc[t] = "stats_finish"
    /\ stats.unique_macs # Cardinality(unique_macs)

HistoryIds == [i \in 1..Len(history) |-> history[i].id]
Last(s) == s[Len(s)]
\* the last n elements of s, in order
Suffix(s, n) == SubSeq(s, Len(s) - n + 1, Len(s))

\* C5: the ring never holds more than its capacity; it holds the most
\* recently pushed requests in push order (so a push into a full ring
\* evicted the oldest and kept the order of the rest), and get_history(1)
\* returns the request pushed last.
C5_RingBounded ==
  /\ Len(history) <= HISTORY_BUFFER_SIZE
  /\ HistoryIds = Suffix(pushed, Min(Len(pushed), HISTORY_BUFFER_SIZE))
  /\ pushed # <<>> =>
       /\ Len(get_history(history, 1)) = 1
       /\ get_history(history, 1)[1].id = Last(pushed)

\* C5 witness: a push into a full ring has happened
C5_Witness ==
  /\ Len(pushed) = HISTORY_BUFFER_SIZE + 1
  /\ Len(history) = HISTORY_BUFFER_SIZE
  /\ history[1].id = pushed[2]

\* C6: get_history(limit) returned min(limit, ring size) entries, the most
\* recently pushed ones at the time of the call, newest first; limit 0
\* gave the empty list.
C6_HistoryNewestFirst ==
  LET n == Min(hist_out.limit, Min(hist_out.at, HISTORY_BUFFER_SIZE))
  IN /\ Len(hist_out.entries) = n
     /\ \A i \in 1..n : hist_out.entries[i].id = pushed[hist_out.at + 1 - i]
     /\ hist_out.limit = 0 => hist_out.entries = <<>>

\* C6 witness: a call with a limit below the ring size, after an eviction,
\* returned the two newest of three pushed requests
C6_Witness ==
  /\ hist_out.limit = 2
  /\ hist_out.at = 3
  /\ Len(hist_out.entries) = 2
  /\ hist_out.entries[1].id = pushed[3]
  /\ hist_out.entries[2].id = pushed[2]

\* a call whose limit exceeds the ring size returned the whole ring
C6_WitnessLimitAboveSize ==
  /\ hist_out.limit = HISTORY_BUFFER_SIZE + 1
  /\ hist_out.at = 1
  /\ Len(hist_out.entries) = 1

\* "contains the substring MSFT", spelled out
HasMSFT(s) ==
  \E i \in 1..Len(s) :
    /\ i + 3 <= Len(s)
    /\ s[i] = "M" /\ s[i + 1] = "S" /\ s[i + 2] = "F" /\ s[i + 3] = "T"

\* the three conditions of the refinement gate for the call of task t
GateHolds(t) ==
  /\ config.enable_smb_probing = TRUE
  /\ req[t].source_ip # "0.0.0.0"
  /\ req[t].vendor_class # <<>>
  /\ HasMSFT(req[t].vendor_class[1])

Baseline(t) ==
  detect_via_dhcp(mac_mappings, req[t].mac_address, req[t].fingerprint)

\* C7: a ping or a dial happens only when probing is enabled, the ip is
\* not 0.0.0.0 and the vendor class is present and contains MSFT; a call
\* for which one of them fails returns the DHCP baseline without ping,
\* cache access or dial.
C7_ProbeGate ==
  \A t \in Tasks :
    /\ (\/ obs[t].ping # "none"
        \/ obs[t].dials > 0
        \/ obs[t].lookups > 0
        \/ pc[t] \in {"ping", "cache", "probe", "store"}) => GateHolds(t)
    /\ (pc[t] = "detected" /\ ~GateHolds(t)) =>
         /\ obs[t].ping = "none"
         /\ obs[t].dials = 0
         /\ obs[t].lookups = 0
         /\ obs[t].stores = 0
         /\ det[t].result = Baseline(t)
         /\ det[t].result.smb_dialect = None

\* C7 witness: probing enabled, a real ip, no vendor class: the call
\* returned the baseline of a known fingerprint without ping or dial
C7_Witness ==
  \E t \in Tasks :
    /\ pc[t] = "detected"
    /\ config.enable_smb_probing
    /\ req[t].source_ip = IP_A
    /\ req[t].vendor_class = None
    /\ obs[t].ping = "none" /\ obs[t].dials = 0
    /\ det[t].result.os_name = "Windows 11"

\* the gate is passed by a vendor class that has MSFT inside, not in front
C7_WitnessInfix ==
  \E t \in Tasks :
    /\ pc[t] = "detected"
    /\ req[t].vendor_class = Some(Vendor_XMSFT)
    /\ obs[t].dials = 1

\* C8: a call whose ping reported unreachable returns the baseline without
\* cache access, dial or cache write; a call whose ping could not run
\* goes on to the cache lookup, and dials unless the lookup hit.
C8_PingDecides ==
  \A t \in Tasks :
    /\ (pc[t] = "detected" /\ obs[t].ping = "unreachable") =>
         /\ det[t].result = Baseline(t)
         /\ obs[t].lookups = 0
         /\ obs[t].dials = 0
         /\ obs[t].stores = 0
    /\ (pc[t] = "detected" /\ obs[t].ping = "error") =>
         /\ obs[t].lookups = 1
         /\ obs[t].hit \/ obs[t].dials = 1
    /\ pc[t] \in {"cache", "probe", "store"} =>
         obs[t].ping \in {"reachable", "error"}

\* C8 witness: unreachable, and the baseline was returned although the
\* cache holds a fresh successful entry for the ip
C8_Witness ==
  \E t \in Tasks :
    /\ pc[t] = "detected"
    /\ obs[t].ping = "unreachable"
    /\ req[t].source_ip \in DOMAIN smb_cache
    /\ smb_cache[req[t].source_ip].result.success
    /\ now - smb_cache[req[t].source_ip].timestamp < config.smb_cache_ttl_secs
    /\ det[t].result.smb_dialect = None

\* the ping could not run, the peer was dialed and its answer was used
C8_WitnessError ==
  \E t \in Tasks :
    /\ pc[t] = "detected"
    /\ obs[t].ping = "error"
    /\ obs[t].dials = 1
    /\ det[t].result.smb_dialect = Some("SMB 3.1.1")

\* C9: a lookup that finds an entry younger than the TTL returns that
\* entry's result without a dial; a lookup that finds an entry of age
\* TTL or more does not use it, and the peer is dialed.
C9_CacheTtl ==
  \A t \in Tasks :
    (obs[t].lookups = 1 /\ IsSome(obs[t].seen)) =>
      IF obs[t].age < config.smb_cache_ttl_secs
        THEN /\ obs[t].hit
             /\ obs[t].dials = 0
             /\ pc[t] = "detected"
             /\ det[t].smb = Some(Unwrap(obs[t].seen).result)
             /\ Unwrap(obs[t].seen).result.success =>
                  /\ det[t].result.smb_dialect =
                       Some(Unwrap(obs[t].seen).result.smb_dialect)
                  /\ det[t].result.smb_build =
                       Unwrap(obs[t].seen).result.build_number
        ELSE /\ ~obs[t].hit
             /\ pc[t] = "probe" \/ obs[t].dials = 1

\* C9 witness: an entry exactly TTL seconds old was found and the peer
\* was dialed again
C9_Witness ==
  \E t \in Tasks :
    /\ obs[t].lookups = 1
    /\ IsSome(obs[t].seen)
    /\ obs[t].age = config.smb_cache_ttl_secs
    /\ obs[t].dials = 1

\* an entry one second short of the TTL was returned without a dial
C9_WitnessHit ==
  \E t \in Tasks :
    /\ obs[t].hit
    /\ obs[t].age = config.smb_cache_ttl_secs - 1
    /\ obs[t].age > 0
    /\ obs[t].dials = 0
    /\ det[t].result.smb_build = Some(19041)

\* C10: every entry of the SMB cache holds a result with success = true.
C10_OnlySuccessCached ==
  \A ip \in DOMAIN smb_cache : smb_cache[ip].result.success

\* C11: a call skips the dial on account of the cache only when the entry
\* it found is younger than the TTL and holds a result with success = true;
\* an entry of a failed probe does not keep the next call from dialing.
C11_CacheSkipNeedsSuccess ==
  \A t \in Tasks :
    obs[t].hit =>
      /\ obs[t].age < config.smb_cache_ttl_secs
      /\ Unwrap(obs[t].seen).result.success

\* C12: a call whose probe ended in a transport error (no result) or in a
\* result with success = false returns the DHCP baseline, every field as
\* the baseline computation gave it, with no smb_dialect and no smb_build.
C12_FailedProbeGivesBaseline ==
  \A t \in Tasks :
    (/\ pc[t] = "detected"
     /\ obs[t].dials = 1
     /\ IsSome(det[t].smb) => ~Unwrap(det[t].smb).success) =>
      /\ det[t].result = Baseline(t)
      /\ det[t].result.os_name = Baseline(t).os_name
      /\ det[t].result.device_class = Baseline(t).device_class
      /\ det[t].result.vendor = Baseline(t).vendor
      /\ det[t].result.confidence = Baseline(t).confidence
      /\ det[t].result.detection_method \in {"MAC/Fingerprint lookup", "None"}
      /\ det[t].result.smb_dialect = None
      /\ det[t].result.smb_build = None

\* C12 witness: the connect was refused for a client with a known
\* fingerprint, and the call returned the fingerprint's descriptor
C12_Witness ==
  \E t \in Tasks :
    /\ pc[t] = "detected"
    /\ obs[t].dials = 1
    /\ IsSome(det[t].smb)
    /\ ~Unwrap(det[t].smb).success
    /\ det[t].result.os_name = "Windows 11"
    /\ det[t].result.detection_method = "MAC/Fingerprint lookup"

\* the exchange failed after the connect and the call returned Unknown
C12_WitnessTransportError ==
  \E t \in Tasks :
    /\ pc[t] = "detected"
    /\ obs[t].dials = 1
    /\ det[t].smb = None
    /\ det[t].result.os_name = "Unknown"
    /\ det[t].result.confidence = 0

\* C13: a call that got a successful probe result, fresh or from the
\* cache, returns os_name = the probe's os_version, the baseline's
\* device_class, vendor Microsoft, confidence 0.95, method
\* "SMB probe (<dialect>)" and the probe's dialect and build; dialect
\* 0x0311 gives "Windows 10/11 (SMB 3.1.1)" and build 19041.
C13_Fusion ==
  \A t \in Tasks :
    (/\ pc[t] = "detected"
     /\ IsSome(det[t].smb)
     /\ Unwrap(det[t].smb).success) =>
      LET smb_result == Unwrap(det[t].smb)
          r == det[t].result
      IN /\ r.os_name = smb_result.os_version
         /\ r.device_class = Baseline(t).device_class
         /\ r.vendor = "Microsoft"
         /\ r.confidence = 95
         /\ r.smb_dialect = Some(smb_result.smb_dialect)
         /\ r.smb_build = smb_result.build_number
         /\ smb_result.smb_dialect = "SMB 3.1.1" =>
              /\ r.os_name = "Windows 10/11 (SMB 3.1.1)"
              /\ r.detection_method = "SMB probe (SMB 3.1.1)"
              /\ r.smb_build = Some(19041)
         /\ smb_result.smb_dialect = "SMB 2.1" =>
              r.detection_method = "SMB probe (SMB 2.1)"
         /\ smb_result.smb_dialect = "SMB (unknown)" =>
              r.detection_method = "SMB probe (SMB (unknown))"

\* C13 witness: a client whose baseline is Unknown answered with dialect
\* 0x0311; the device class stayed Unknown and the vendor became Microsoft
C13_Witness ==
  \E t \in Tasks :
    /\ pc[t] = "detected"
    /\ obs[t].dials = 1
    /\ Baseline(t).vendor = "Unknown"
    /\ det[t].result.os_name = "Windows 10/11 (SMB 3.1.1)"
    /\ det[t].result.device_class = "Unknown"
    /\ det[t].result.vendor = "Microsoft"
    /\ det[t].result.smb_build = Some(19041)

\* the successful result came from the cache, without a dial
C13_WitnessCached ==
  \E t \in Tasks :
    /\ pc[t] = "detected"
    /\ obs[t].hit
    /\ obs[t].dials = 0
    /\ det[t].result.detection_method = "SMB probe (SMB 3.1.1)"

DbKeys == {FINGERPRINT_DB[i][1] : i \in 1..Len(FINGERPRINT_DB)}
DbDescriptors(key) ==
  {FINGERPRINT_DB[i][2] : i \in {j \in 1..Len(FINGERPRINT_DB) :
                                    FINGERPRINT_DB[j][1] = key}}
BaselineComputed(t) == pc[t] \in {"ping", "cache", "probe", "store", "detected"}

\* C14: for a client without MAC override the baseline is a hit (a DB
\* descriptor, confidence 0.95, method "MAC/Fingerprint lookup") exactly
\* when the fingerprint string is a DB key; for every other string, a key
\* with a code appended, removed or reordered included, it is Unknown,
\* Unknown, Unknown, 0.0, "None".
C14_ExactMatchOnly ==
  \A t \in Tasks :
    (BaselineComputed(t) /\ req[t].mac_address \notin DOMAIN mac_mappings) =>
      LET b == det[t].baseline
      IN /\ IF req[t].fingerprint \in DbKeys
               THEN /\ OsInfo(b.os_name, b.device_class, b.vendor)
                         \in DbDescriptors(req[t].fingerprint)
                    /\ b.confidence = 95
                    /\ b.detection_method = "MAC/Fingerprint lookup"
               ELSE b = DetectionResult("Unknown", "Unknown", "Unknown", 0,
                                        "None", <<>>, <<>>)
         /\ req[t].fingerprint = "1,3,6,15,31,33,43,44,46,47,121,249,252,12"
              => b.os_name = "Windows 11"
         /\ req[t].fingerprint = "1,3,6,15,31,33,43,44,46,47,121,249,252"
              => b.os_name = "Windows 10/8/8.1"
         /\ req[t].fingerprint
               \in {"1,3,6,15,31,33,43,44,46,47,121,249,252,12,99",
                    "1,3,6,15,31,33,43,44,46,47,121,249,252,99",
                    "1,3,6,15,31,33,43,44,46,47,121,249",
                    "1,3,6,15,31,33,43,44,46,47,121,249,12,252",
                    "99,98,97", ""}
              => b.os_name = "Unknown" /\ b.confidence = 0

\* C14 witness: the Windows 11 key with code 99 appended gave Unknown
C14_Witness ==
  \E t \in Tasks :
    /\ BaselineComputed(t)
    /\ req[t].mac_address \notin DOMAIN mac_mappings
    /\ req[t].fingerprint = FP_WIN11_APPENDED
    /\ det[t].baseline.os_name = "Unknown"
    /\ det[t].baseline.detection_method = "None"

\* the key itself gave its descriptor
C14_WitnessHit ==
  \E t \in Tasks :
    /\ BaselineComputed(t)
    /\ req[t].mac_address \notin DOMAIN mac_mappings
    /\ req[t].fingerprint = FP_WIN10
    /\ det[t].baseline.os_name = "Windows 10/8/8.1"
    /\ det[t].baseline.confidence = 95

\* C15: for a client whose MAC has an override the baseline carries the
\* override's descriptor whatever the fingerprint is: a DB key, another
\* string or the empty string.
C15_MacOverrideWins ==
  \A t \in Tasks :
    (BaselineComputed(t) /\ req[t].mac_address \in DOMAIN mac_mappings) =>
      LET b == det[t].baseline
          o == mac_mappings[req[t].mac_address]
      IN /\ b.os_name = o.os_name
         /\ b.device_class = o.device_class
         /\ b.vendor = o.vendor
         /\ b.confidence = 95
         /\ b.detection_method = "MAC/Fingerprint lookup"

\* C15 witness: the client sent the Windows 11 key and the override's
\* descriptor was returned
C15_Witness ==
  \E t \in Tasks :
    /\ BaselineComputed(t)
    /\ req[t].mac_address \in DOMAIN mac_mappings
    /\ req[t].fingerprint = FP_WIN11
    /\ det[t].baseline.os_name = "Windows Server 2022"
    /\ det[t].baseline.device_class = "Server"

\* the client sent no Option 55 and the override's descriptor was returned
C15_WitnessEmpty ==
  \E t \in Tasks :
    /\ BaselineComputed(t)
    /\ req[t].mac_address \in DOMAIN mac_mappings
    /\ req[t].fingerprint = ""
    /\ det[t].baseline.os_name = "Windows Server 2022"

\* the response has at least 68 bytes and 0xFE 'S' 'M' 'B' at bytes 4..8
Validated(buf) ==
  /\ Len(buf) >= 68
  /\ buf[5] = 254 /\ buf[6] = 83 /\ buf[7] = 77 /\ buf[8] = 66

FailedResult(os) ==
  [os_version |-> os, build_number |-> <<>>, smb_dialect |-> "N/A",
   success |-> FALSE]

\* C19: probe_smb returns success = false with "Unknown (SMB port closed)"
\* for a refused connect and with "Unknown (connection timeout)" for a
\* connect timeout, never an error; after the connect a send failure, send
\* timeout, read failure, read timeout, empty read, response shorter than
\* 68 bytes or response without the signature gives an error, and a result
\* with success = true only comes from a validated response.
C19_ProbeErrorMapping ==
  \A t \in Tasks :
    IsSome(obs[t].probe) =>
      LET o == Unwrap(obs[t].probe).outcome
          r == Unwrap(obs[t].probe).returned
      IN /\ o.kind = "refused" =>
              r = <<"Ok", FailedResult("Unknown (SMB port closed)")>>
         /\ o.kind = "timeout" =>
              r = <<"Ok", FailedResult("Unknown (connection timeout)")>>
         /\ o.kind \in {"send_failed", "send_timeout", "read_failed",
                        "read_timeout"} => r = <<"Err">>
         /\ (o.kind = "read" /\ ~Validated(o.response)) => r = <<"Err">>
         /\ (r[1] = "Ok" /\ r[2].success) =>
              (o.kind = "read" /\ Validated(o.response))

\* C19 witness: a 70-byte response that starts 0xFF 'S' 'M' 'B' (SMB1) at
\* byte 4 was answered with an error
C19_Witness ==
  \E t \in Tasks :
    /\ IsSome(obs[t].probe)
    /\ Unwrap(obs[t].probe).outcome.kind = "read"
    /\ Len(Unwrap(obs[t].probe).outcome.response) = 70
    /\ Unwrap(obs[t].probe).outcome.response[5] = 255
    /\ Unwrap(obs[t].probe).returned = <<"Err">>

\* a refused connect was answered with a result, not an error
C19_WitnessRefused ==
  \E t \in Tasks :
    /\ IsSome(obs[t].probe)
    /\ Unwrap(obs[t].probe).outcome.kind = "refused"
    /\ Unwrap(obs[t].probe).returned[1] = "Ok"
    /\ ~Unwrap(obs[t].probe).returned[2].success

\* a 67-byte response with the signature was answered with an error
C19_WitnessShort ==
  \E t \in Tasks :
    /\ IsSome(obs[t].probe)
    /\ Unwrap(obs[t].probe).outcome.kind = "read"
    /\ Len(Unwrap(obs[t].probe).outcome.response) = 67
    /\ Unwrap(obs[t].probe).returned = <<"Err">>

SixLabels == {"SMB 2.0.2", "SMB 2.1", "SMB 3.0", "SMB 3.0.2", "SMB 3.1.1",
              "SMB (unknown)"}

\* the OS label and the build estimate that go with a dialect label
OsFollowsLabel(r) ==
  /\ r.smb_dialect = "SMB 3.1.1" =>
       r.os_version = "Windows 10/11 (SMB 3.1.1)" /\ r.build_number = <<19041>>
  /\ r.smb_dialect \in {"SMB 3.0", "SMB 3.0.2"} =>
       r.os_version = "Windows 8.1/10 (SMB 3.0)" /\ r.build_number = <<9600>>
  /\ r.smb_dialect = "SMB 2.1" =>
       r.os_version = "Windows 7/Server 2008 R2" /\ r.build_number = <<7601>>
  /\ r.smb_dialect = "SMB 2.0.2" =>
       r.os_version = "Windows Vista/Server 2008" /\ r.build_number = <<6002>>
  /\ r.smb_dialect \notin {"SMB 3.1.1", "SMB 3.0", "SMB 3.0.2", "SMB 2.1",
                           "SMB 2.0.2"} =>
       r.os_version = "Windows (unknown SMB)" /\ r.build_number = <<>>

\* the label the table gives the 16-bit little-endian value at offset 68
LabelFollowsCode(buf, label) ==
  LET code == buf[69] + 256 * buf[70]
  IN /\ code = 514 => label = "SMB 2.0.2"
     /\ code = 528 => label = "SMB 2.1"
     /\ code = 768 => label = "SMB 3.0"
     /\ code = 770 => label = "SMB 3.0.2"
     /\ code = 785 => label = "SMB 3.1.1"
     /\ code \notin {514, 528, 768, 770, 785} => label = "SMB (unknown)"

\* C20 as stated: for every validated response the dialect label is one of
\* the six labels of the table, chosen from the little-endian 16-bit value
\* at offset 68, and the OS label and build follow from it.
C20_SixLabels ==
  \A t \in Tasks :
    (/\ IsSome(obs[t].probe)
     /\ Unwrap(obs[t].probe).outcome.kind = "read"
     /\ Validated(Unwrap(obs[t].probe).outcome.response)) =>
      LET r == Unwrap(obs[t].probe).returned
      IN /\ r[1] = "Ok"
         /\ r[2].smb_dialect \in SixLabels
         /\ OsFollowsLabel(r[2])

\* C20 amended: for every validated response of at least 70 bytes the
\* label is the table's label of the little-endian 16-bit value at offset
\* 68; a validated response of 68 or 69 bytes gets the label
\* "SMB 2.x/3.x"; in both cases success = true and the OS label and build
\* follow from the label, with "Windows (unknown SMB)" and no build for
\* "SMB (unknown)" and "SMB 2.x/3.x".
C20_DialectTable ==
  \A t \in Tasks :
    (/\ IsSome(obs[t].probe)
     /\ Unwrap(obs[t].probe).outcome.kind = "read"
     /\ Validated(Unwrap(obs[t].probe).outcome.response)) =>
      LET buf == Unwrap(obs[t].probe).outcome.response
          r == Unwrap(obs[t].probe).returned
      IN /\ r[1] = "Ok"
         /\ r[2].success
         /\ IF Len(buf) >= 70
              THEN /\ LabelFollowsCode(buf, r[2].smb_dialect)
                   /\ r[2].smb_dialect \in SixLabels
              ELSE r[2].smb_dialect = "SMB 2.x/3.x"
         /\ OsFollowsLabel(r[2])

\* C20 witness: a 70-byte response with 0x11 0x03 at offset 68 gave
\* SMB 3.1.1 and build 19041
C20_Witness ==
  \E t \in Tasks :
    /\ IsSome(obs[t].probe)
    /\ Unwrap(obs[t].probe).outcome.kind = "read"
    /\ Len(Unwrap(obs[t].probe).outcome.response) = 70
    /\ Unwrap(obs[t].probe).outcome.response[69] = 17
    /\ Unwrap(obs[t].probe).outcome.response[70] = 3
    /\ Unwrap(obs[t].probe).returned[1] = "Ok"
    /\ Unwrap(obs[t].probe).returned[2].smb_dialect = "SMB 3.1.1"
    /\ Unwrap(obs[t].probe).returned[2].build_number = <<19041>>

\* a validated response of 68 bytes gave the label SMB 2.x/3.x
C20_WitnessNoDialect ==
  \E t \in Tasks :
    /\ IsSome(obs[t].probe)
    /\ Unwrap(obs[t].probe).outcome.kind = "read"
    /\ Len(Unwrap(obs[t].probe).outcome.response) = 68
    /\ Unwrap(obs[t].probe).returned[1] = "Ok"
    /\ Unwrap(obs[t].probe).returned[2].smb_dialect = "SMB 2.x/3.x"
    /\ Unwrap(obs[t].probe).returned[2].os_version = "Windows (unknown SMB)"

Parsed(t) == packet[t] # <<"None">>

\* C16: for every input DhcpPacket::parse returns a packet or an error and
\* never indexes outside the input; it returns the error exactly when the
\* input has fewer than 236 bytes or bytes 236..240 are missing or are not
\* 99, 130, 83, 99; a 236-byte input always fails.
C16_ParseTotal ==
  \A t \in Tasks :
    Parsed(t) =>
      LET buf == datagram[t]
          malformed == \/ Len(buf) < 236
                       \/ Len(buf) < 240
                       \/ buf[237] # 99 \/ buf[238] # 130
                       \/ buf[239] # 83 \/ buf[240] # 99
      IN /\ packet[t][1] \in {"Ok", "Err"}
         /\ pc[t] # "panicked"
         /\ packet[t][1] = "Err" <=> malformed
         /\ Len(buf) = 236 => packet[t][1] = "Err"

\* C16 witness: a datagram of exactly 236 bytes was refused
C16_Witness ==
  \E t \in Tasks :
    /\ Parsed(t)
    /\ Len(datagram[t]) = 236
    /\ packet[t][1] = "Err"
    /\ pc[t] = "dropped"

\* a datagram whose last byte is an option code was decoded
C16_WitnessCodeLast ==
  \E t \in Tasks :
    /\ Parsed(t)
    /\ Len(datagram[t]) = 241
    /\ datagram[t][241] = 53
    /\ packet[t][1] = "Ok"
    /\ packet[t][2].options = <<>>

\* C17: when complete options are followed by an option whose length byte
\* is missing or whose declared length runs past the end of the buffer,
\* parsing succeeds and returns exactly the complete options, in wire
\* order; nothing of the cut option is stored.
C17_TruncatedOptionStops ==
  \A t \in Tasks :
    Parsed(t) =>
      \A o \in CompleteOptionLists, tail \in TruncatedTails :
        (datagram[t] \in {BootpHeader(6) \o MAGIC_COOKIE \o WireOf(o) \o tail,
                          BootpHeader(6) \o MAGIC_COOKIE \o PaddedWireOf(o)
                            \o tail}) =>
          /\ packet[t][1] = "Ok"
          /\ packet[t][2].options = o
          /\ Len(packet[t][2].options) = Len(o)

\* C17 witness: Option 53 and Option 55 were followed by Option 60 with
\* declared length 5 and two bytes of data; the two options were returned
C17_Witness ==
  \E t \in Tasks :
    /\ Parsed(t)
    /\ SubSeq(datagram[t], 241, Len(datagram[t]))
         = <<53, 1, 1, 55, 3, 1, 3, 6, 60, 5, 77, 83>>
    /\ packet[t][1] = "Ok"
    /\ packet[t][2].options = <<DhcpOption(53, <<1>>),
                                DhcpOption(55, <<1, 3, 6>>)>>

\* the number of parts mac_address.split(":") gives
SplitParts(str) ==
  1 + Cardinality({i \in 1..Len(str) : SubSeq(str, i, i) = ":"})

Built(t) == Parsed(t) /\ packet[t][1] = "Ok" /\ pc[t] = "detect"

\* C18 as stated: for every request built from a decoded packet the number
\* of colon-separated parts of mac_address equals the packet's hlen, for
\* every hlen in 0..255.
C18_MacPartsEqualHlen ==
  \A t \in Tasks :
    Built(t) => SplitParts(req[t].mac_address) = packet[t][2].hlen

\* C18 amended: the number of colon-separated parts of mac_address equals
\* hlen for hlen in 1..16, where mac_address is the first hlen bytes of
\* chaddr as two lowercase hex digits each; for hlen = 0 and for hlen > 16
\* mac_address is the empty string.
C18_MacPartsForValidHlen ==
  \A t \in Tasks :
    Built(t) =>
      LET hlen == packet[t][2].hlen
          mac == req[t].mac_address
      IN IF hlen \in 1..16
           THEN /\ SplitParts(mac) = hlen
                /\ Len(mac) = 3 * hlen - 1
                /\ SubSeq(mac, 1, 2) = "aa"
                /\ hlen = 6 => mac = "aa:bb:cc:dd:ee:01"
           ELSE mac = ""

\* C18 witness: hlen = 16 gave sixteen parts
C18_Witness ==
  \E t \in Tasks :
    /\ Built(t)
    /\ packet[t][2].hlen = 16
    /\ SplitParts(req[t].mac_address) = 16
    /\ req[t].mac_address
         = "aa:bb:cc:dd:ee:01:02:03:04:05:06:07:08:09:0a:0b"

\* hlen = 17 gave the empty string
C18_WitnessTooLong ==
  \E t \in Tasks :
    /\ Built(t)
    /\ packet[t][2].hlen = 17
    /\ req[t].mac_address = ""


\* ------------------------------------------------------------ C21 .. C30
\* the arms no build reaches: every build the arm names is taken by an
\* earlier arm
Returned(i) ==
  \E b \in BUILD_ARMS[i][1]..BUILD_ARMS[i][2] :
    build_to_windows_version(b) = BUILD_ARMS[i][3]
ShadowedArms == {i \in 1..Len(BUILD_ARMS) : ~Returned(i)}

\* C21: build_to_windows_version returns the label the unit test expects
\* for 22621, 19045, 19041 and 7601, and every arm of the table is returned
\* for at least one build.
C21_BuildLabels ==
  version # "" =>
    /\ build = 22621 => version = "Windows 11 22H2"
    /\ build = 19045 => version = "Windows 10 22H2"
    /\ build = 19041 => version = "Windows 10 2004/20H2/21H1"
    /\ build = 7601 => version = "Windows 7"
    /\ ShadowedArms = {}

\* C26: on the table that create_pool creates, every request that has gone
\* through process_request is a row of the store: once a call has returned
\* the store has as many rows as requests were processed, and the row of
\* the returned call is among them.
C26_EveryRequestStored ==
  table = SCHEMA_COLUMNS =>
    /\ pc[1] = "done" => req[1] \in Range(db)
    /\ pc[1] \in {"idle", "done"} => Len(db) = Len(pushed)

\* the sum of the counters of a HashMap<String, u64>
RECURSIVE SumOver(_, _)
SumOver(map, keys) ==
  IF keys = {} THEN 0
  ELSE LET k == CHOOSE x \in keys : TRUE
       IN map[k] + SumOver(map, keys \ {k})
SumOf(map) == SumOver(map, DOMAIN map)

\* the tasks whose request update_statistics has counted
Counted == {t \in Tasks : "stats" \in Range(obs[t].sinks)}

\* C28: while a get_stats reader holds the read guard, total_requests is
\* the sum of the per-type counters, the sum of the vendor counters is the
\* number of counted requests that carried a vendor class and at most
\* total_requests, and 1 <= unique_macs <= total_requests once a request
\* was counted.
C28_StatsConsistent ==
  rd_pc = "reading" =>
    /\ stats.total_requests = SumOf(stats.request_types)
    /\ stats.total_requests = Cardinality(Counted)
    /\ SumOf(stats.vendor_classes)
         = Cardinality({t \in Counted : IsSome(req[t].vendor_class)})
    /\ SumOf(stats.vendor_classes) <= stats.total_requests
    /\ stats.total_requests > 0 =>
         /\ 1 <= stats.unique_macs
         /\ stats.unique_macs <= stats.total_requests

\* C28 witness: a reader sees two counted requests of the same type from
\* one MAC, both with a vendor class
C28_Witness ==
  /\ rd_pc = "reading"
  /\ stats.total_requests = 2
  /\ stats.unique_macs = 1
  /\ SumOf(stats.vendor_classes) = 2
  /\ \E k \in DOMAIN stats.request_types : stats.request_types[k] = 2

\* C28 witness: a reader sees two requests from two MACs, one without a
\* vendor class
C28_WitnessMixed ==
  /\ rd_pc = "reading"
  /\ stats.total_requests = 2
  /\ stats.unique_macs = 2
  /\ SumOf(stats.vendor_classes) = 1

\* the bytes of a datagram after the header and the cookie
OptionsArea(buf) == SubSeq(buf, 241, Len(buf))

\* the options areas that carry these options, bare or padded, then an End
\* and these bytes
Ended(o, rest) ==
  {WireOf(o) \o <<255>> \o rest, PaddedWireOf(o) \o <<255>> \o rest}

\* the index of the first option with this code, 0 if there is none
FirstWithCode(options, code) ==
  IF \E i \in 1..Len(options) : options[i].code = code
    THEN CHOOSE i \in 1..Len(options) :
           /\ options[i].code = code
           /\ \A j \in 1..(i - 1) : options[j].code # code
    ELSE 0

\* C29: no stored option has code 0 or 255; pads between options are
\* skipped one byte each, the first End stops the parser so that nothing
\* after it is stored, the stored options are the options of the wire in
\* wire order with duplicates kept, and get_option returns the first
\* option of a code.
C29_PadAndEnd ==
  \A t \in Tasks :
    (Parsed(t) /\ packet[t][1] = "Ok") =>
      LET p == packet[t][2]
          area == OptionsArea(datagram[t])
      IN /\ \A i \in 1..Len(p.options) : p.options[i].code \notin {0, 255}
         /\ \A o \in CompleteOptionLists, rest \in AfterEnd :
              area \in Ended(o, rest) => p.options = o
         /\ \A code \in {0, 12, 53, 55, 60, 255}
                         \cup {p.options[i].code : i \in 1..Len(p.options)} :
              LET first == FirstWithCode(p.options, code)
              IN get_option(p, code)
                   = IF first = 0 THEN None ELSE Some(p.options[first])

\* C29 witness: a padded datagram with Option 12, two Option 55 and, after
\* the End, an Option 53 was decoded to the three options, and get_option
\* gives the first Option 55
C29_Witness ==
  \E t \in Tasks :
    /\ Parsed(t)
    /\ datagram[t] = BootpHeader(6) \o MAGIC_COOKIE
                       \o <<0, 12, 0, 0, 0, 0, 55, 2, 1, 3, 0, 0, 0, 55, 1, 6,
                            0, 0, 0, 255, 53, 1, 5>>
    /\ packet[t][1] = "Ok"
    /\ Len(packet[t][2].options) = 3
    /\ get_option(packet[t][2], 55) = Some(DhcpOption(55, <<1, 3>>))
    /\ get_option(packet[t][2], 53) = None

\* C29 witness: an options area that starts with End stores nothing
C29_WitnessEndFirst ==
  \E t \in Tasks :
    /\ Parsed(t)
    /\ datagram[t] = BootpHeader(6) \o MAGIC_COOKIE \o <<255, 53, 1, 1>>
    /\ packet[t][1] = "Ok"
    /\ packet[t][2].options = <<>>

\* the names of the message types
TypeName(v) ==
  CASE v = 1 -> "DISCOVER" [] v = 3 -> "REQUEST" [] v = 4 -> "DECLINE"
    [] v = 5 -> "ACK" [] v = 6 -> "NAK" [] v = 7 -> "RELEASE"
    [] v = 8 -> "INFORM" [] OTHER -> "UNKNOWN"

\* C30: message_type of a built request is the name of the first byte of the
\* first Option 53 when that byte is 1, 3, 4, 5, 6, 7 or 8, and UNKNOWN for
\* every other byte, when there is no Option 53 and when the first Option 53
\* is empty.
C30_MessageType ==
  \A t \in Tasks :
    Built(t) =>
      LET options == packet[t][2].options
          first == FirstWithCode(options, 53)
      IN /\ req[t].message_type
              = IF first = 0 THEN "UNKNOWN"
                ELSE IF options[first].data = <<>> THEN "UNKNOWN"
                ELSE TypeName(options[first].data[1])
         /\ \A v \in 0..255 :
              OptionsArea(datagram[t]) = <<53, 1, v, 255>>
                => req[t].message_type = TypeName(v)
         /\ req[t].message_type # "OFFER"

\* C30 witness: Option 53 = 5 gave ACK
C30_Witness ==
  \E t \in Tasks :
    /\ Built(t)
    /\ datagram[t] = BootpHeader(6) \o MAGIC_COOKIE \o <<53, 1, 5, 255>>
    /\ req[t].message_type = "ACK"

\* C30 witness: Option 53 = 2 gave UNKNOWN
C30_WitnessOffer ==
  \E t \in Tasks :
    /\ Built(t)
    /\ datagram[t] = BootpHeader(6) \o MAGIC_COOKIE \o <<53, 1, 2, 255>>
    /\ req[t].message_type = "UNKNOWN"

\* C30 witness: an empty Option 53 before an Option 53 = 1 gave UNKNOWN
C30_WitnessEmpty ==
  \E t \in Tasks :
    /\ Built(t)
    /\ datagram[t] = BootpHeader(6) \o MAGIC_COOKIE \o <<53, 0, 53, 1, 1, 255>>
    /\ req[t].message_type = "UNKNOWN"

\* what a connection has sent to its client, by kind, as request ids
IdsOfKind(sent, kind) ==
  LET picked == SelectSeq(sent, LAMBDA e : e[1] = kind)
  IN [i \in 1..Len(picked) |-> picked[i][2]]
BurstIds(sent) == IdsOfKind(sent, "burst")
LiveIds(sent) == IdsOfKind(sent, "live")

\* the values a connection has taken from the channel
Taken(w) == LiveIds(w.sent) \o (IF w.pc = "send" THEN <<w.item>> ELSE <<>>)

\* C23 in a state: a task that is about to publish can do so whatever the
\* connections do, no call fails, every request handed to the hub was
\* either stored or dropped, and a connection that is still open has taken
\* the values published since it subscribed in order and without a gap.
PublishState ==
  /\ \A t \in Tasks :
       /\ pc[t] # "failed"
       /\ pc[t] = "broadcast" => ENABLED Broadcast(t)
       /\ pc[t] = "done" =>
            /\ Last(obs[t].sinks) = "broadcast"
            /\ Occurrences(hub, req[t].id) = 1
  /\ Len(hub) = Len(chan.items) + Len(chan.dropped)
  /\ \A s \in Subscribers :
       ws[s].pc \in {"live", "send"} =>
         /\ ws[s].next >= Overwritten(chan.items) =>
              Taken(ws[s]) = SubSeq(chan.items, ws[s].start + 1, ws[s].next)
         /\ ws[s].next <= Len(chan.items)

\* C23 in a step: the publish returns to the caller in the same step, drops
\* the request when no connection has a receiver and stores it otherwise,
\* and changes no connection; the newest BROADCAST_CHANNEL_SIZE values stay
\* available to every receiver.
PublishStep ==
  \A t \in Tasks :
    (pc[t] = "broadcast" /\ pc'[t] # "broadcast") =>
      /\ pc'[t] = "done"
      /\ hub' = Append(hub, req[t].id)
      /\ ws' = ws
      /\ Receivers(ws) = {} =>
           /\ chan'.items = chan.items
           /\ chan'.dropped = Append(chan.dropped, req[t].id)
      /\ Receivers(ws) # {} =>
           /\ chan'.items = Append(chan.items, req[t].id)
           /\ chan'.dropped = chan.dropped
           /\ \A s \in Receivers(ws) :
                \A n \in 1..Len(chan'.items) :
                  (n > ws[s].next /\ n > Len(chan'.items) - BROADCAST_CHANNEL_SIZE)
                    => recv(chan'.items, Max(ws[s].next, n - 1)).kind = "Ok"

\* C23: publishing to the hub never blocks or fails the processor: with no
\* subscriber the request is dropped and the call still returns, and with a
\* subscriber that does not drain every publish still completes and only
\* that subscriber misses values, those older than the channel capacity.
C23_PublishNeverBlocks == []PublishState /\ [][PublishStep]_vars

\* C23 witness: three requests were published while one connection took
\* none (one more than the channel keeps) and the other took all three
C23_Witness ==
  \E s1, s2 \in Subscribers :
    /\ pc[1] = "done"
    /\ Len(chan.items) = BROADCAST_CHANNEL_SIZE + 1
    /\ ws[s1].pc = "live" /\ ws[s1].start = 0 /\ ws[s1].next = 0
    /\ ws[s2].pc = "live" /\ ws[s2].start = 0
    /\ LiveIds(ws[s2].sent) = chan.items

\* C23 witness: a request was published with no connection and the call
\* returned
C23_WitnessNoSubscriber ==
  /\ pc[1] = "done"
  /\ chan.dropped = <<req[1].id>>
  /\ chan.items = <<>>

\* C24: the lag signal does not end the subscription: the step in which a
\* connection is told that it lagged leaves it receiving.
C24_LagKeepsStream ==
  [][\A s \in Subscribers :
       ws'[s].lagged > ws[s].lagged => ws'[s].pc = "live"]_vars

\* C25: what a connection has sent is its priming burst followed by live
\* values; the burst has at most WS_INITIAL_HISTORY entries, they are the
\* most recent entries of the ring at the read, newest first, and a live
\* value is sent only once the whole burst has been sent.
C25_BurstThenLive ==
  \A s \in Subscribers :
    ws[s].pc \in {"burst", "live", "send"} =>
      LET sent == ws[s].sent
          burst == BurstIds(sent)
          ring == ws[s].ring
      IN /\ \A i, j \in 1..Len(sent) :
              (i < j /\ sent[i][1] = "live") => sent[j][1] = "live"
         /\ Len(burst) <= WS_INITIAL_HISTORY
         /\ Len(burst) <= Len(ring)
         /\ \A i \in 1..Len(burst) : burst[i] = ring[Len(ring) + 1 - i]
         /\ (ws[s].pc \in {"live", "send"} \/ LiveIds(sent) # <<>>) =>
              Len(burst) = Min(WS_INITIAL_HISTORY, Len(ring))

\* C25 witness: the ring held two requests at the read, the connection
\* sent the newer one as its burst and then a live value
C25_Witness ==
  \E s \in Subscribers :
    /\ ws[s].ring = <<1, 2>>
    /\ ws[s].sent = <<(<<"burst", 2>>), (<<"live", 3>>)>>

\* C25 witness: a value published between the subscribe and the read is
\* sent in the burst and again as a live value
C25_WitnessTwice ==
  \E s \in Subscribers :
    /\ ws[s].start = 0
    /\ ws[s].sent = <<(<<"burst", 1>>), (<<"live", 1>>)>>

\* what a datagram may change: the ring and its push record, the
\* statistics, the set of MACs, the SMB cache, the log file, the store and
\* the hub with its channel
SharedState ==
  <<history, pushed, stats, unique_macs, smb_cache, logfile, db, hub, chan>>

\* the steps of the handler in slot t on a datagram that does not decode
DropSteps(t) ==
  \/ pc[t] = "parse" /\ parse(datagram[t])[1] = "Err" /\ pc'[t] # "parse"
  \/ pc[t] = "dropped" /\ pc'[t] # "dropped"

MalformedState ==
  \A t \in Tasks :
    /\ pc[t] # "panicked"
    /\ (pc[t] # "idle" /\ packet[t][1] = "Err") =>
         /\ pc[t] = "dropped"
         /\ obs[t] = NoObs
         /\ det[t] = NoDetect
         /\ ENABLED HandlerReturn(t)
    /\ (pc[t] = "idle" /\ received < MaxWire) =>
         \E bytes \in WireInputs : ENABLED RecvFrom(t, bytes)

MalformedStep ==
  \A t \in Tasks :
    DropSteps(t) =>
      /\ pc'[t] = IF pc[t] = "parse" THEN "dropped" ELSE "idle"
      /\ SharedState' = SharedState
      /\ obs'[t] = NoObs
      /\ det'[t] = NoDetect

\* C22: a datagram for which parse returns Err changes nothing: its handler
\* goes from the parse to the return of Ok(()) and nowhere else, ring,
\* statistics, MAC set, SMB cache, log file, store and hub stay as they
\* are, nothing is dialled, nothing panics, and the slot is free for the
\* next datagram of the receive loop.
C22_MalformedIgnored == []MalformedState /\ [][MalformedStep]_vars

\* C22 witness: a datagram was dropped while the ring and the store hold a
\* request of an earlier datagram
C22_Witness ==
  \E t \in Tasks :
    /\ pc[t] = "dropped"
    /\ Len(history) = 1
    /\ Len(db) = 1
    /\ stats.total_requests = 1

\* C22 witness: the first datagram was dropped and the loop went on to the
\* second, which is processed
C22_WitnessLoopGoesOn ==
  \E t \in Tasks :
    /\ pc[t] = "done"
    /\ req[t].id = 2
    /\ pushed = <<2>>
    /\ \A u \in Tasks \ {t} : pc[u] = "idle"

\* C27: under fair scheduling, with every external call returning, each
\* handler that has decoded its datagram reaches the end of
\* process_request with its request pushed into the ring, counted in the
\* statistics and published, whatever the ping, the probe, the log write
\* and the insert returned.
C27_DecodedAlwaysProcessed ==
  \A t \in Tasks :
    (pc[t] = "build") ~>
      (/\ pc[t] = "done"
       /\ req[t].id \in Range(pushed)
       /\ req[t].id \in Range(hub)
       /\ "stats" \in Range(obs[t].sinks)
       /\ stats.total_requests >= 1)

\* C27 witness: a request whose host did not answer the probe and whose
\* log write and insert both failed is done, pushed and published
C27_Witness ==
  \E t \in Tasks :
    /\ pc[t] = "done"
    /\ datagram[t] = BootpHeader(6) \o MAGIC_COOKIE \o Win11Area
    /\ req[t].smb_dialect = None
    /\ obs[t].errors = {"log", "db"}
    /\ req[t].id \in Range(pushed)
    /\ req[t].id \in Range(hub)

\* ------------------------------------------------------------ C31 .. C40

\* C40: for a client with a MAC override whose call was let through the
\* gate (probing enabled, ip not 0.0.0.0, vendor class containing MSFT) and
\* got a successful probe result, the returned os_name is the probe's
\* os_version and not the override's name, the vendor is "Microsoft" and
\* the device_class is the override's.
C40_SmbReplacesOverrideName ==
  \A t \in Tasks :
    (/\ pc[t] = "detected"
     /\ req[t].mac_address \in DOMAIN mac_mappings
     /\ should_probe_smb(config, req[t].source_ip, req[t].vendor_class)
     /\ IsSome(det[t].smb)
     /\ Unwrap(det[t].smb).success) =>
      LET override == mac_mappings[req[t].mac_address]
          r == det[t].result
      IN /\ r.os_name = Unwrap(det[t].smb).os_version
         /\ r.os_name # override.os_name
         /\ r.vendor = "Microsoft"
         /\ r.device_class = override.device_class
         /\ det[t].baseline.os_name = override.os_name

\* C40 witness: the client with the override "Windows Server 2022" /
\* "Server" answered the dial with dialect 0x0311
C40_Witness ==
  \E t \in Tasks :
    /\ pc[t] = "detected"
    /\ req[t].mac_address = MAC_1
    /\ MAC_1 \in DOMAIN mac_mappings
    /\ obs[t].dials = 1
    /\ det[t].baseline.os_name = "Windows Server 2022"
    /\ det[t].result.os_name = "Windows 10/11 (SMB 3.1.1)"
    /\ det[t].result.device_class = "Server"
    /\ det[t].result.vendor = "Microsoft"

\* the cache entry a lookup for the request of task t would return now
UsableEntry(t) ==
  /\ req[t].source_ip \in DOMAIN smb_cache
  /\ CacheEntryUsable(smb_cache[req[t].source_ip], now,
                      config.smb_cache_ttl_secs)
  /\ smb_cache[req[t].source_ip].result.success

\* C38: every call let through the gate runs the ping before it looks into
\* the cache: a call past the gate has a ping outcome, a call that looked
\* into the cache (a hit included) had a ping that was reachable or could
\* not run, and a call whose ping reported unreachable returns the
\* baseline without a lookup, whatever the cache holds for its ip.
C38_PingBeforeCache ==
  \A t \in Tasks :
    /\ (pc[t] \in {"cache", "probe", "store", "detected"}
          /\ should_probe_smb(config, req[t].source_ip, req[t].vendor_class))
         => obs[t].ping # "none"
    /\ obs[t].lookups > 0 => obs[t].ping \in {"reachable", "error"}
    /\ obs[t].hit => obs[t].ping \in {"reachable", "error"}
    /\ (pc[t] = "detected" /\ obs[t].ping = "unreachable") =>
         /\ obs[t].lookups = 0
         /\ ~obs[t].hit
         /\ det[t].result = det[t].baseline
         /\ det[t].result.smb_dialect = None
         /\ det[t].result.smb_build = None

\* C38 witness: a call answered from the cache, without a dial, after a
\* ping that reported reachable
C38_Witness ==
  \E t \in Tasks :
    /\ pc[t] = "detected"
    /\ obs[t].ping = "reachable"
    /\ obs[t].hit
    /\ obs[t].dials = 0
    /\ IsSome(det[t].result.smb_dialect)

\* C38 witness: the ping reported unreachable while the cache holds a
\* usable successful entry for the ip; the baseline came back, not what
\* the entry would have given
C38_WitnessUnreachable ==
  \E t \in Tasks :
    /\ pc[t] = "detected"
    /\ obs[t].ping = "unreachable"
    /\ UsableEntry(t)
    /\ det[t].result = det[t].baseline
    /\ det[t].result #
         combine_results(det[t].baseline, smb_cache[req[t].source_ip].result)

\* the steps of the cache: an insert by the task in slot t, a call of
\* clear_cache, a call of cache_stats
InsertsInto(t, ip) ==
  /\ pc[t] = "store"
  /\ pc'[t] = "detected"
  /\ req[t].source_ip = ip
  /\ obs[t].dials = 1
AdminCall(op) == cache_call'.n = cache_call.n + 1 /\ cache_call'.op = op

CacheState ==
  /\ (received = 0 /\ cache_call.n = 0) => smb_cache = <<>>
  /\ DOMAIN smb_cache \subseteq CacheIps
  /\ cache_call.expired <= cache_call.total
  /\ cache_call.total <= Cardinality(CacheIps)

CacheStep ==
  /\ \A ip \in DOMAIN smb_cache :
       /\ ip \notin DOMAIN smb_cache' =>
            (smb_cache' = <<>> /\ AdminCall("clear_cache"))
       /\ (ip \in DOMAIN smb_cache' /\ smb_cache'[ip] # smb_cache[ip]) =>
            \E t \in Tasks : InsertsInto(t, ip)
  /\ \A ip \in DOMAIN smb_cache' \ DOMAIN smb_cache :
       \E t \in Tasks : InsertsInto(t, ip)
  /\ now' # now => smb_cache' = smb_cache
  /\ (\E t \in Tasks : obs'[t].lookups > obs[t].lookups) =>
       smb_cache' = smb_cache
  /\ AdminCall("clear_cache") => smb_cache' = <<>>
  /\ AdminCall("cache_stats") =>
       /\ smb_cache' = smb_cache
       /\ cache_call'.total = Cardinality(DOMAIN smb_cache)
       /\ cache_call'.expired =
            Cardinality({ip \in DOMAIN smb_cache :
                           now - smb_cache[ip].timestamp
                             >= config.smb_cache_ttl_secs})
       /\ smb_cache = <<>> =>
            (cache_call'.total = 0 /\ cache_call'.expired = 0)

\* C31: the cache is empty before the first call and is a map from ip to
\* one entry; an entry goes away only when clear_cache empties the whole
\* map and changes only when a probe of its ip is inserted over it, so the
\* clock, a lookup and cache_stats leave the map as it is, expired entries
\* included; cache_stats returns the number of entries and the number of
\* those with now - timestamp >= ttl, hence expired <= total and (0, 0) on
\* the map clear_cache left.
C31_CacheResidency == []CacheState /\ [][CacheStep]_vars

\* C31 witness: a lookup saw an expired entry and left it in the map, and
\* cache_stats counts it as expired
C31_Witness ==
  \E t \in Tasks :
    /\ obs[t].lookups = 1
    /\ IsSome(obs[t].seen)
    /\ ~obs[t].hit
    /\ pc[t] = "probe"
    /\ req[t].source_ip \in DOMAIN smb_cache
    /\ smb_cache[req[t].source_ip] = Unwrap(obs[t].seen)
    /\ cache_call.op = "cache_stats"
    /\ cache_call.total = 1
    /\ cache_call.expired = 1

\* C31 witness: two addresses, two entries, one of them expired
C31_WitnessTwoEntries ==
  /\ DOMAIN smb_cache = CacheIps
  /\ cache_call.op = "cache_stats"
  /\ cache_call.total = 2
  /\ cache_call.expired = 1

\* C31 witness: cache_stats right after clear_cache, after two detect
\* calls
C31_WitnessCleared ==
  /\ received = 2
  /\ cache_call.op = "cache_stats"
  /\ cache_call.after = "clear_cache"
  /\ cache_call.total = 0
  /\ cache_call.expired = 0
  /\ smb_cache = <<>>

DialState ==
  /\ \A ip \in DOMAIN smb_cache : smb_cache[ip].timestamp <= now
  /\ \A t \in Tasks :
       /\ pc[t] = "store" => det[t].stamp <= now
       /\ obs[t].lookups > 0 => obs[t].age >= 0
       /\ (obs[t].lookups = 1 /\ ~obs[t].hit) =>
            (pc[t] = "probe" \/ obs[t].dials = 1)

DialStep ==
  \A t \in Tasks, ip \in CacheIps :
    InsertsInto(t, ip) =>
      /\ DOMAIN smb_cache' = DOMAIN smb_cache \cup {ip}
      /\ smb_cache'[ip] = [result |-> Unwrap(det[t].smb),
                           timestamp |-> det[t].stamp]
      /\ \A other \in DOMAIN smb_cache \ {ip} :
           smb_cache'[other] = smb_cache[other]

\* C39: a detect call whose lookup found no usable entry dials, whatever
\* the other calls for the same ip are doing; each insert replaces the
\* entry of its ip, so the map has one entry for the ip, that of the last
\* insert; with a clock that does not go back every timestamp in the map
\* is <= now, so now - timestamp does not underflow in a lookup or in
\* cache_stats.
C39_ConcurrentProbes == []DialState /\ [][DialStep]_vars

\* C39 witness: two calls for one ip both missed and both dialled; the
\* host answered one and refused the other, both results were inserted
\* and the map holds the refusal
C39_Witness ==
  \E t, u \in Tasks :
    /\ t # u
    /\ req[t].source_ip = IP_A /\ req[u].source_ip = IP_A
    /\ obs[t].dials = 1 /\ obs[u].dials = 1
    /\ ~obs[t].hit /\ ~obs[u].hit
    /\ obs[t].stores = 1 /\ obs[u].stores = 1
    /\ Unwrap(det[t].smb).success /\ ~Unwrap(det[u].smb).success
    /\ DOMAIN smb_cache = {IP_A}
    /\ smb_cache[IP_A].result = Unwrap(det[u].smb)

\* C39 witness: both calls are at the dial at the same time
C39_WitnessBothDialling ==
  \E t, u \in Tasks :
    /\ t # u
    /\ pc[t] = "probe" /\ pc[u] = "probe"
    /\ req[t].source_ip = req[u].source_ip

\* C39 witness: the insert that came last carries the older timestamp
C39_WitnessOlderStampLast ==
  \E t, u \in Tasks :
    /\ t # u
    /\ req[t].source_ip = IP_A /\ req[u].source_ip = IP_A
    /\ obs[t].stores = 1 /\ obs[u].stores = 1
    /\ IP_A \in DOMAIN smb_cache
    /\ smb_cache[IP_A].timestamp = det[u].stamp
    /\ det[u].stamp < det[t].stamp
    /\ Unwrap(det[t].smb).success /\ ~Unwrap(det[u].smb).success
    /\ smb_cache[IP_A].result = Unwrap(det[u].smb)

\* m occurs in s: s is some prefix, then m, then some suffix
IsSubstring(m, s) ==
  \E i \in 0..(Len(s) - Len(m)) : SubSeq(s, i + 1, i + Len(m)) = m

\* a and b are the same letter in either case, or the same character
SameLetter(a, b) ==
  \/ a = b
  \/ \E k \in 1..26 :
       /\ a \in {SubSeq(ASCII_LOWER, k, k), SubSeq(ASCII_UPPER, k, k)}
       /\ b \in {SubSeq(ASCII_LOWER, k, k), SubSeq(ASCII_UPPER, k, k)}
SameIgnoringCase(a, b) ==
  /\ Len(a) = Len(b)
  /\ \A i \in 1..Len(a) : SameLetter(SubSeq(a, i, i), SubSeq(b, i, i))

\* the three predicates of a search, in the words of the interface
Satisfies(r, q) ==
  /\ IsSome(q.mac) => IsSubstring(Unwrap(q.mac), r.mac_address)
  /\ IsSome(q.vendor) =>
       /\ IsSome(r.vendor_class)
       /\ IsSubstring(Unwrap(q.vendor), Unwrap(r.vendor_class))
  /\ IsSome(q.msg_type) => SameIgnoringCase(r.message_type, Unwrap(q.msg_type))

\* the i-th of the positions in keep, counted from the smallest
NthOf(keep, i) == CHOOSE k \in keep : Cardinality({j \in keep : j <= k}) = i

SearchStep ==
  search_out' # search_out =>
    \A q \in {search_out'} :
    \A keep \in {{i \in 1..Len(history) : Satisfies(history[i], q)}} :
       /\ history' = history
       /\ Len(q.entries) = Cardinality(keep)
       /\ \A i \in 1..Len(q.entries) :
            q.entries[i] = history[NthOf(keep, i)]
       /\ (q.mac = None /\ q.vendor = None /\ q.msg_type = None) =>
            q.entries = history
       /\ IsSome(q.vendor) =>
            \A i \in 1..Len(q.entries) : IsSome(q.entries[i].vendor_class)

\* C32: a search_history call returns the entries of the ring that satisfy
\* every given predicate, each once and in ring order: mac a substring of
\* mac_address, vendor a substring of a vendor class that is present,
\* msg_type equal to message_type up to ASCII case; with nothing given it
\* returns the whole ring, and the ring is left as it is.
C32_SearchFilters == [][SearchStep]_vars

\* C32 witness: of two entries in the ring, a search for vendor "MSFT" and
\* type "request" returned the one REQUEST with vendor class "MSFT 5.0"
\* and not the DISCOVER without vendor class
C32_Witness ==
  /\ Len(history) = 2
  /\ \E i \in 1..2 : history[i].vendor_class = None
  /\ search_out.vendor = Some(Str_MSFT)
  /\ search_out.msg_type = Some("request")
  /\ Len(search_out.entries) = 1
  /\ search_out.entries[1].message_type = "REQUEST"
  /\ search_out.entries[1].vendor_class = Some(Vendor_MSFT50)

\* C32 witness: the empty vendor string matches the entry with a vendor
\* class and not the one without
C32_WitnessEmptyVendor ==
  /\ Len(history) = 2
  /\ history[1].vendor_class = None
  /\ IsSome(history[2].vendor_class)
  /\ search_out.mac = None
  /\ search_out.vendor = Some(<<>>)
  /\ search_out.msg_type = None
  /\ search_out.entries = <<history[2]>>

\* C32 witness: the MAC predicate tells the cases apart
C32_WitnessMacCase ==
  /\ Len(history) = 2
  /\ history[1].mac_address = MAC_1
  /\ search_out.mac = Some("EE:01")
  /\ search_out.vendor = None
  /\ search_out.msg_type = None
  /\ search_out.entries = <<>>

\* the stages of process_request from the first sink on
SinkStages ==
  {"log", "db", "history", "stats", "stats_macs", "stats_count",
   "stats_finish", "broadcast", "done"}

\* a request carries the result of detect
Enriched(r) ==
  /\ IsSome(r.os_name)
  /\ IsSome(r.device_class)
  /\ IsSome(r.detection_method)
  /\ IsSome(r.confidence)
  /\ IsSome(r.smb_dialect) =>
       Unwrap(r.detection_method) = SmbProbeMethod(Unwrap(r.smb_dialect))
  /\ IsSome(r.smb_build) => IsSome(r.smb_dialect)

Stored == Range(logfile) \cup Range(db) \cup Range(history)

OneRecordState ==
  /\ \A r \in Stored : Enriched(r)
  /\ \A r1, r2 \in Stored : r1.id = r2.id => r1 = r2
  /\ \A t \in Tasks :
       pc[t] \in SinkStages =>
         /\ Enriched(req[t])
         /\ \A r \in Stored : r.id = req[t].id => r = req[t]
         /\ "log" \in Range(obs[t].sinks) \ obs[t].errors =>
              req[t] \in Range(logfile)
         /\ "db" \in Range(obs[t].sinks) \ obs[t].errors =>
              req[t] \in Range(db)

OneRecordStep ==
  /\ \A t \in Tasks :
       (pc[t] \in SinkStages /\ pc'[t] \in SinkStages) => req'[t] = req[t]
  /\ \A r \in Range(history), r2 \in Range(history') :
       r.id = r2.id => r = r2
  /\ Len(pushed') > Len(pushed) =>
       \E t \in Tasks :
         /\ pc[t] = "history"
         /\ history'[Len(history')] = req[t]
         /\ \A i \in 1..(Len(history') - 1) : history'[i] \in Range(history)
  /\ Len(hub') > Len(hub) =>
       \E t \in Tasks :
         /\ pc[t] = "broadcast"
         /\ hub' = Append(hub, req[t].id)
         /\ req[t].id \in Range(pushed)
         /\ Enriched(req[t])

\* C33: from the first sink on a request carries the result of detect and
\* is not assigned again; the line in the log, the row in the store and
\* the entry in the ring of one request are equal to it, the value handed
\* to the hub is this request, and an entry of the ring stays as it was
\* pushed until it is evicted, so whatever is read from the ring has its
\* detection fields.
C33_OneEnrichedRecord == []OneRecordState /\ [][OneRecordStep]_vars

\* C33 witness: a request refined by a probe is in the log, the store and
\* the ring as the record the task holds, and was published
C33_Witness ==
  \E t \in Tasks :
    /\ pc[t] = "done"
    /\ req[t].smb_dialect = Some("SMB 3.1.1")
    /\ req[t].os_name = Some("Windows 10/11 (SMB 3.1.1)")
    /\ req[t] \in Range(logfile)
    /\ req[t] \in Range(db)
    /\ req[t] \in Range(history)
    /\ req[t].id \in Range(hub)

\* no call of process_request is under way
Quiescent == \A t \in Tasks : pc[t] \in {"idle", "dropped", "done"}

\* C35: the number of requests handed to the hub is at most total_requests,
\* which is at most the number of pushes into the ring, and the three are
\* equal whenever no process_request call is under way.
C35_CountersOrdered ==
  /\ Len(hub) <= stats.total_requests
  /\ stats.total_requests <= Len(pushed)
  /\ Quiescent =>
       (Len(hub) = stats.total_requests /\ stats.total_requests = Len(pushed))

\* C35 witness: get_stats holds the read guard and total_requests is 0
\* while the ring has an entry, its task waiting for the write guard
C35_Witness ==
  /\ rd_pc = "reading"
  /\ stats.total_requests = 0
  /\ Len(history) = 1
  /\ \E t \in Tasks : pc[t] = "stats" /\ history[1] = req[t]

\* C35 witness: all three are 2 once both calls have returned
C35_WitnessQuiescent ==
  /\ Quiescent
  /\ Len(hub) = 2
  /\ stats.total_requests = 2
  /\ Len(pushed) = 2

\* the entries of the ring that the burst of get_history(50) holds
InBurst(ring) ==
  {ring[i] : i \in {j \in 1..Len(ring) : j > Len(ring) - WS_INITIAL_HISTORY}}

\* the connection has sent its burst and was not closed
Streaming(w) == w.pc \in {"live", "send"}

\* the values a connection has sent live are those published since it
\* subscribed, in order and without a gap
NothingMissed(w) ==
  (Streaming(w) /\ w.next >= Overwritten(chan.items)) =>
    /\ w.start <= w.next
    /\ w.next <= Len(chan.items)
    /\ Taken(w) = SubSeq(chan.items, w.start + 1, w.next)
    /\ \A n \in (w.next + 1)..Len(chan.items) :
         recv(chan.items, n - 1).kind = "Ok"

\* C37 as stated: a request that was in the ring at the read and was sent
\* live was also sent in the burst.
C37_PrimedThenLive ==
  \A s \in Subscribers :
    /\ NothingMissed(ws[s])
    /\ Streaming(ws[s]) =>
         \A x \in Range(LiveIds(ws[s].sent)) :
           x \in Range(ws[s].ring) => x \in Range(BurstIds(ws[s].sent))

\* C37 amended: the subscription precedes the history read, a connection
\* that stays open and does not lag sends live every request published
\* after it subscribed, and a request that was in the ring at the read and
\* is sent live was sent in the burst too exactly if it was among the
\* WS_INITIAL_HISTORY newest entries of the ring at the read.
C37_PrimedThenLiveAmended ==
  \A s \in Subscribers :
    /\ NothingMissed(ws[s])
    /\ ws[s].pc = "prime" => ws[s].sent = <<>>
    /\ Streaming(ws[s]) =>
         \A x \in Range(LiveIds(ws[s].sent)) :
           x \in Range(BurstIds(ws[s].sent)) <=> x \in InBurst(ws[s].ring)

\* C37 witness: request 1 was published after the subscription and was in
\* the ring at the read; it was sent in the burst and live, request 2 was
\* pushed after the read and sent live only
C37_Witness ==
  /\ ws[1].start = 0
  /\ ws[1].ring = <<1>>
  /\ hub = <<1, 2>>
  /\ ws[1].sent = <<(<<"burst", 1>>), (<<"live", 1>>), (<<"live", 2>>)>>

\* C37 witness: two requests were in the ring at the read and were
\* published after the subscription; the older one was sent live only
C37_WitnessOnce ==
  /\ ws[1].start = 0
  /\ ws[1].ring = <<1, 2>>
  /\ ws[1].sent = <<(<<"burst", 2>>), (<<"live", 1>>), (<<"live", 2>>)>>

\* a sequence holds no value twice
NoRepeat(seq) == \A i, j \in 1..Len(seq) : seq[i] = seq[j] => i = j

\* C36: no sink step of a task waits for the request of another task, so
\* the order of a sink is the order in which the tasks reach it; what is
\* ordered is each request by itself: it is published only after it was
\* pushed, every sink holds it at most once, and the ring and the hub have
\* received the same requests once no call is under way.
C36_SinksUnordered ==
  /\ \A t \in Tasks :
       /\ pc[t] = "log" => ENABLED LogRequest(t, TRUE)
       /\ pc[t] = "db" => ENABLED InsertRequest(t, TRUE)
       /\ pc[t] = "history" => ENABLED HistoryPush(t)
       /\ pc[t] = "broadcast" => ENABLED Broadcast(t)
  /\ NoRepeat(Ids(logfile)) /\ NoRepeat(Ids(db))
  /\ NoRepeat(pushed) /\ NoRepeat(hub)
  /\ Range(hub) \subseteq Range(pushed)
  /\ Quiescent => Range(hub) = Range(pushed)

\* C36 witness: request 1 entered the ring before request 2 and was
\* published after it
C36_Witness ==
  /\ pushed = <<1, 2>>
  /\ Ids(history) = <<1, 2>>
  /\ hub = <<2, 1>>

\* C36 witness: the log file and the store hold 2 before 1, the ring 1
\* before 2
C36_WitnessLoggedStored ==
  /\ Ids(logfile) = <<2, 1>>
  /\ Ids(db) = <<2, 1>>
  /\ Ids(history) = <<1, 2>>

\* C36 witness: the datagram received second is in the ring before the
\* one received first
C36_WitnessReceivedFirst ==
  /\ Ids(history) = <<2, 1>>
  /\ pushed = <<2, 1>>
  /\ received = 2

\* the locks a call holds a guard of
Held(p) ==
  {l \in Locks : guards[l].writer = p \/ p \in guards[l].readers}

\* the callers a waiting call waits for: the holders of the guards that
\* exclude its own, and for an RwLock the waiters ahead of it
Blockers(p) ==
  IF ~callers[p].waiting THEN {}
  ELSE LET op == Op(callers[p])
           g == guards[op[2]]
       IN {q \in Callers : q = g.writer}
            \cup (IF op[3] = "write" THEN g.readers ELSE {})
            \cup (IF op[2] = "log_file" THEN {}
                   ELSE {g.queue[i].caller :
                           i \in {j \in 1..Len(g.queue) :
                                    \A k \in QueuedAt(g, p) : j < k}})

\* the callers that p waits for through at most n waits
RECURSIVE WaitsFor(_, _)
WaitsFor(p, n) ==
  IF n = 0 THEN {}
  ELSE LET near == WaitsFor(p, n - 1) \cup Blockers(p)
       IN near \cup UNION {Blockers(q) : q \in near}

\* C34: no call ever waits, directly or through other calls, for itself,
\* and a call that waits for nobody can take its next step; the history
\* guard is never held together with another guard or while waiting, the
\* unique_macs lock is requested and held only under the stats write
\* guard, and a call that awaits the probe or requests the cache write
\* guard holds no guard.
C34_NoDeadlock ==
  \A p \in Callers :
    \E c \in {callers[p]} :
      \E op \in {Op(c)} :
        /\ p \notin WaitsFor(p, MaxCallers)
        /\ (c.kind # "none" /\ Blockers(p) = {}) =>
             \/ ENABLED RequestGuard(p)
             \/ ENABLED GrantGuard(p)
             \/ ENABLED DropGuard(p)
             \/ ENABLED AwaitDone(p)
             \/ ENABLED CallReturn(p)
        /\ "history" \in Held(p) => (Held(p) = {"history"} /\ ~c.waiting)
        /\ (op[1] = "acquire" /\ op[2] = "stats") => Held(p) = {}
        /\ (op[1] = "acquire" /\ op[2] = "unique_macs") =>
             (Held(p) = {"stats"} /\ guards["stats"].writer = p)
        /\ "unique_macs" \in Held(p) => guards["stats"].writer = p
        /\ (op[1] = "await" /\ op[2] = "probe_smb") => Held(p) = {}
        /\ (op[1] = "acquire" /\ op[2] = "smb_cache") => Held(p) = {}
        /\ AtEnd(c) => Held(p) = {}

\* C34 witness: get_stats holds the stats read guard, a processor task
\* that has dropped the history guard waits behind it for the write guard,
\* and a second get_stats waits behind the task
C34_Witness ==
  \E p, q, r \in Callers :
    /\ callers[p].kind = "get_stats" /\ guards["stats"].readers = {p}
    /\ callers[q].kind = "handle_request" /\ callers[q].waiting
    /\ callers[r].kind = "get_stats" /\ callers[r].waiting
    /\ guards["stats"].queue = <<[caller |-> q, mode |-> "write"],
                                 [caller |-> r, mode |-> "read"]>>
    /\ guards["history"] = Unlocked

\* C34 witness: one task awaits the probe while clear_cache holds the
\* cache write guard and cache_stats waits for the read guard
C34_WitnessProbe ==
  \E p, q, r \in Callers :
    /\ Op(callers[p]) = Awaits("probe_smb")
    /\ callers[q].kind = "clear_cache" /\ guards["smb_cache"].writer = q
    /\ callers[r].kind = "cache_stats" /\ callers[r].waiting

\* C34 witness: a task holds the stats and the unique_macs write guards
\* while another task holds the history write guard
C34_WitnessNested ==
  \E p, q \in Callers :
    /\ Held(p) = {"stats", "unique_macs"}
    /\ Held(q) = {"history"}

=============================================================================
